---------------------------- MODULE Spec2Model ----------------------------
(***************************************************************************)
(* Verification model of the endpoint process-control agent.               *)
(*                                                                         *)
(* These parts share this module:                                          *)
(*   - the policy matchers: PolicyEngine::evaluate (edr/policy.rs) and     *)
(*     is_whitelisted / is_blacklisted (main.rs), specification SpecPolicy;*)
(*   - the kill governor ProcessKiller (edr/killer.rs), specifications     *)
(*     SpecKiller and SpecKillerReap;                                      *)
(*   - the desktop agent of main.rs (AppState, scans, daemon control,      *)
(*     policy store, activity log and its HMAC sidecar), specifications    *)
(*     Spec, SpecTally, SpecCtl, SpecStop, SpecStore, SpecSave, SpecLog,   *)
(*     SpecAudit;                                                          *)
(*   - the Logger's readers (edr/logger.rs), specification SpecQuery;      *)
(*   - configuration loading (edr/config.rs), specification SpecValidate,  *)
(*     and the engine built from it, specification SpecBuiltIn;            *)
(*   - file hashing (edr/scanner.rs, main.rs), specification SpecHash;     *)
(*   - the process tree (edr/scanner.rs), specification SpecTree.          *)
(*                                                                         *)
(* Strings are sequences of one-character strings, so that case folding,   *)
(* wildcard matching and substring search are computed, not assumed.       *)
(***************************************************************************)
EXTENDS Integers, Sequences, FiniteSets, TLC

\* Option<T>: None, or Some(x) holding x
None == <<>>
Some(x) == <<x>>
unwrap(o) == o[1]

(***************************************************************************)
(* Bounds of the model.                                                    *)
(***************************************************************************)
\* rules in one policy document (allow list plus deny list) drawn for the matchers
MaxRules == 2
\* the clock stops advancing here
MaxTime == 5
\* kill requests per PID that get past the throttle
MaxAttempts == 2
\* scanner threads that can be spawned in one run
MaxSpawn == 2
\* commands the request workers issue in one run
MaxOps == 3
\* snapshots that succeed in one run of the stop specifications
MaxScans == 1

(***************************************************************************)
(* Strings.                                                                *)
(***************************************************************************)
\* u8::to_ascii_lowercase on the alphabet of the model
to_ascii_lowercase(c) ==
    CASE c = "E" -> "e"
      [] c = "C" -> "c"
      [] c = "X" -> "x"
      [] c = "D" -> "d"
      [] c = "K" -> "k"
      [] OTHER -> c

str_to_ascii_lowercase(s) == [i \in DOMAIN s |-> to_ascii_lowercase(s[i])]

eq_ignore_ascii_case(a, b) == str_to_ascii_lowercase(a) = str_to_ascii_lowercase(b)

contains(s, c) == \E i \in DOMAIN s : s[i] = c

\* glob match of text n against pattern p, '*' standing for any run of characters
RECURSIVE wildmatch(_, _)
wildmatch(p, n) ==
    IF p = <<>> THEN n = <<>>
    ELSE IF Head(p) = "*"
         THEN wildmatch(Tail(p), n) \/ (n # <<>> /\ wildmatch(p, Tail(n)))
         ELSE n # <<>> /\ Head(p) = Head(n) /\ wildmatch(Tail(p), Tail(n))

\* Vec<String>::join(" ")
RECURSIVE join(_)
join(args) ==
    IF args = <<>> THEN <<>>
    ELSE IF Len(args) = 1 THEN Head(args)
    ELSE Head(args) \o <<" ">> \o join(Tail(args))

\* text has pat as a contiguous substring
is_substring(pat, text) ==
    \E i \in 0..(Len(text) - Len(pat)) :
        \A j \in 1..Len(pat) : text[i + j] = pat[j]

(***************************************************************************)
(* Regular expressions, restricted to the patterns of the model: a literal *)
(* run of characters, ".*", and the unparsable "(".                        *)
(***************************************************************************)
MatchAll == <<".", "*">>

\* Regex::new(pattern).is_ok()
regex_parses(pattern) == ~contains(pattern, "(")

\* Regex::is_match: an unanchored search
regex_is_match(regex, text) ==
    IF regex = MatchAll THEN TRUE ELSE is_substring(regex, text)

(***************************************************************************)
(* Rules, policies and process records.                                    *)
(* A rule is [id, rule_type, value, enabled]; enabled is Option<bool>      *)
(* ("none", "true", "false").  The edr Rule has no enabled field.          *)
(***************************************************************************)
Rule(id, ty, v, en) == [id |-> id, rule_type |-> ty, value |-> v, enabled |-> en]

R_name   == Rule("r_name",  "name",    <<"E">>,      "none")
R_wild   == Rule("r_wild",  "name",    <<"e", "*">>, "true")
R_path   == Rule("r_path",  "path",    <<"X">>,      "none")
R_hash   == Rule("r_hash",  "hash",    <<"D">>,      "none")
R_cmd    == Rule("r_cmd",   "command", <<"k">>,      "none")
R_badre  == Rule("r_badre", "command", <<"(">>,      "none")
R_off    == Rule("r_off",   "name",    <<"c">>,      "false")

RuleUniverse == {R_name, R_wild, R_path, R_hash, R_cmd, R_badre, R_off}

ProcessInfo(pid, name, path, hash, command) ==
    [pid |-> pid, name |-> name, path |-> path, hash |-> hash, command |-> command]

\* the records drawn for the matchers: hash is the digest of the file at path
\* when the record is evaluated (None: no path, or the file cannot be read)
RecordUniverse ==
    { ProcessInfo(7, n, ph[1], ph[2], c) :
        n \in {<<"e">>, <<"E">>, <<"c">>},
        ph \in {<<None, None>>, <<Some(<<"x">>), None>>, <<Some(<<"x">>), Some(<<"d">>)>>},
        c \in {<<>>, << <<"k">> >>, << <<"c">>, <<"k">> >>} }

PolicyConfig(wl, bl) == [whitelist |-> wl, blacklist |-> bl]

(***************************************************************************)
(* main.rs: name/path/hash matching with whitelist precedence.             *)
(***************************************************************************)
matches_rule_name(name, pat) ==
    LET n == str_to_ascii_lowercase(name)
        p == str_to_ascii_lowercase(pat)
    IN IF contains(p, "*") THEN wildmatch(p, n) ELSE n = p

matches_rule_path(path, pat) ==
    LET n == str_to_ascii_lowercase(path)
        p == str_to_ascii_lowercase(pat)
    IN IF contains(p, "*") THEN wildmatch(p, n) ELSE n = p

\* compute_sha256_hex(path) is pi.hash
matches_rule_hash(pi, expected_hex) ==
    IF pi.hash # None THEN eq_ignore_ascii_case(unwrap(pi.hash), expected_hex) ELSE FALSE

\* one iteration of the loops of is_whitelisted / is_blacklisted
app_rule_hits(r, pi) ==
    IF r.enabled = "false" THEN FALSE
    ELSE CASE r.rule_type = "name" -> matches_rule_name(pi.name, r.value)
           [] r.rule_type = "path" -> pi.path # None /\ matches_rule_path(unwrap(pi.path), r.value)
           [] r.rule_type = "hash" -> pi.path # None /\ matches_rule_hash(pi, r.value)
           [] OTHER -> FALSE

is_whitelisted(pi, pol) ==
    \E i \in DOMAIN pol.whitelist : app_rule_hits(pol.whitelist[i], pi)

is_blacklisted(pi, pol) ==
    \E i \in DOMAIN pol.blacklist : app_rule_hits(pol.blacklist[i], pi)

\* the agent's own PID, std::process::id()
SelfPid == 1

\* classify_record without the test of the agent's own PID
classify_record_no_self(p, pol) ==
    IF is_whitelisted(p, pol) THEN "allowed"
    ELSE IF is_blacklisted(p, pol) THEN "denied"
    ELSE "unmatched"

\* classify_record with the blacklist test made before the whitelist test
classify_record_deny_first(p, pol) ==
    IF SelfPid = p.pid THEN "self"
    ELSE IF is_blacklisted(p, pol) THEN "denied"
    ELSE IF is_whitelisted(p, pol) THEN "allowed"
    ELSE "unmatched"

\* what the body of a scan loop decides for one record, before any side effect:
\* the self test, then the whitelist test, then the blacklist test
classify_record(p, pol) ==
    IF SelfPid = p.pid THEN "self"
    ELSE IF is_whitelisted(p, pol) THEN "allowed"
    ELSE IF is_blacklisted(p, pol) THEN "denied"
    ELSE "unmatched"

(***************************************************************************)
(* edr/policy.rs: PolicyEngine.                                            *)
(***************************************************************************)
\* the regex the cache holds for a pattern: the compiled pattern, or the
\* match-all fallback when the pattern does not parse
get_or_compile_regex(pattern) ==
    IF regex_parses(pattern) THEN pattern ELSE MatchAll

matches_rule(rule, process) ==
    CASE rule.rule_type = "name" -> eq_ignore_ascii_case(process.name, rule.value)
      [] rule.rule_type = "path" ->
            IF process.path # None THEN eq_ignore_ascii_case(unwrap(process.path), rule.value) ELSE FALSE
      [] rule.rule_type = "hash" ->
            IF process.hash # None THEN eq_ignore_ascii_case(unwrap(process.hash), rule.value) ELSE FALSE
      [] rule.rule_type = "command" ->
            regex_is_match(get_or_compile_regex(rule.value), join(process.command))

\* first_match that keeps walking and returns the last rule that matches
RECURSIVE first_match_last(_, _, _)
first_match_last(list, i, process) ==
    IF i > Len(list) THEN 0
    ELSE LET later == first_match_last(list, i + 1, process)
         IN IF later # 0 THEN later
            ELSE IF matches_rule(list[i], process) THEN i ELSE 0

\* index of the first rule of list, from position i on, that matches; 0 when none does
RECURSIVE first_match(_, _, _)
first_match(list, i, process) ==
    IF i > Len(list) THEN 0
    ELSE IF matches_rule(list[i], process) THEN i
    ELSE first_match(list, i + 1, process)

\* Some((rule, is_blacklisted)) or None
evaluate(wl, bl, process) ==
    LET w == first_match(wl, 1, process)
        b == first_match(bl, 1, process)
    IN IF w # 0 THEN Some([rule |-> wl[w], is_blacklisted |-> FALSE])
       ELSE IF b # 0 THEN Some([rule |-> bl[b], is_blacklisted |-> TRUE])
       ELSE None

(***************************************************************************)
(* edr/killer.rs: ProcessKiller.  Time is in units of 100 s.               *)
(***************************************************************************)
\* Duration::from_secs(300) of cleanup_old_entries
CleanupTimeout == 3

\* the PIDs the governor is asked about
KPids == {SelfPid, 2}

KillPolicy(g, f, c, m) ==
    [graceful_kill |-> g, force_kill_timeout_ms |-> f, cooldown_ms |-> c, max_retry_attempts |-> m]

KillPolicyUniverse ==
    { KillPolicy(g, 1, c, m) : g \in BOOLEAN, c \in {0, 2}, m \in {1, 2} }

\* insert that keeps the value of a key the map already holds
insert_absent(map, k, v) ==
    [x \in DOMAIN map \cup {k} |-> IF x \in DOMAIN map THEN map[x] ELSE v]

\* HashMap::insert
insert(map, k, v) == [x \in DOMAIN map \cup {k} |-> IF x = k THEN v ELSE map[x]]

\* retain that removes nothing
retain_all(map, kept) == map

\* HashMap::retain, given the keys the closure keeps
retain(map, kept) == [x \in DOMAIN map \cap kept |-> map[x]]

\* in_cooldown with the comparison turned around
in_cooldown_inverted(policy, cooldown, pid, t) ==
    pid \in DOMAIN cooldown /\ t - cooldown[pid] > policy.cooldown_ms

\* the cooldown test of kill_process at time t
in_cooldown(policy, cooldown, pid, t) ==
    pid \in DOMAIN cooldown /\ t - cooldown[pid] < policy.cooldown_ms

\* retry_tracker.get(&pid).copied().unwrap_or(0)
retries_of(retry, pid) == IF pid \in DOMAIN retry THEN retry[pid] ELSE 0

\* max_retries_reached that lets one more attempt through
max_retries_reached_late(policy, retry, pid) ==
    retries_of(retry, pid) > policy.max_retry_attempts

\* the retry test of kill_process
max_retries_reached(policy, retry, pid) ==
    retries_of(retry, pid) >= policy.max_retry_attempts

\* failed_attempt that counts the failure twice
failed_attempt_twice(retry, pid) == insert(retry, pid, retries_of(retry, pid) + 2)

\* self.retry_tracker.insert(pid, retries + 1)
failed_attempt(retry, pid) == insert(retry, pid, retries_of(retry, pid) + 1)

\* what force_terminate returns: Ok, or one of its errors
ForceResults == {"Ok", "SystemError", "InvalidHandle"}

\* throttled with the retry test made before the cooldown test
throttled_retry_first(policy, cooldown, retry, pid, t) ==
    IF max_retries_reached(policy, retry, pid) THEN "MaxRetriesReached"
    ELSE IF in_cooldown(policy, cooldown, pid, t) THEN "InCooldown"
    ELSE "no"

\* the two early returns of kill_process, in their order: the error the
\* request is rejected with, or "no"
throttled(policy, cooldown, retry, pid, t) ==
    IF in_cooldown(policy, cooldown, pid, t) THEN "InCooldown"
    ELSE IF max_retries_reached(policy, retry, pid) THEN "MaxRetriesReached"
    ELSE "no"

(***************************************************************************)
(* main.rs: the desktop agent.  Time is in units of 100 ms.                *)
(***************************************************************************)
\* cooldown_ms of the default kill policy, 1000 ms
DefaultCooldown == 10
\* Duration::from_secs(5) of the restart block
RestartBlock == 50
\* activities.truncate(10000)
ActivityCap == 10000
GracePeriod == 2

\* the request handler's worker threads, and the scanner threads by spawn order
Workers == {"w"} \X (1..2)
Scanners == {"s"} \X (1..MaxSpawn)
Threads == Workers \cup Scanners

\* the processes of the host other than the agent
OtherPids == {2, 3}

\* the Process Record list_processes builds for a PID.  The agent's own name
\* and process 2's name match the deny rule R_name; process 3 matches the
\* allow rule R_allow by name and the deny rule R_path by path.
os_record(pid) ==
    CASE pid = SelfPid -> ProcessInfo(pid, <<"e">>, Some(<<"a">>), None, <<>>)
      [] pid = 2       -> ProcessInfo(pid, <<"E">>, Some(<<"b">>), None, <<>>)
      [] OTHER         -> ProcessInfo(pid, <<"c">>, Some(<<"x">>), None, <<>>)

\* win::list_processes: the live processes, the agent among them
list_processes(alive) ==
    SelectSeq(<<SelfPid, 2, 3>>, LAMBDA q : q = SelfPid \/ q \in alive)

R_allow == Rule("r_allow", "name", <<"C">>, "none")

EmptyPolicy == PolicyConfig(<<>>, <<>>)
AppPolicy == PolicyConfig(<<R_allow>>, <<R_name, R_path>>)

\* the bytes of policy.json: whether they parse as a PolicyConfig, and as which
Document(parses, cfg) == [parses |-> parses, cfg |-> cfg]

\* serde_json::to_vec_pretty(cfg)
to_vec_pretty(cfg) == Document(TRUE, cfg)

\* bytes that serde_json::from_slice::<PolicyConfig> rejects
Garbled == Document(FALSE, EmptyPolicy)

\* read_policy_from_disk on the file (None: no file, or fs::read fails)
read_policy_from_disk(file) ==
    IF file # None /\ unwrap(file).parses THEN Some(unwrap(file).cfg) ELSE None

\* write_policy_to_disk: the file after fs::write
write_policy_to_disk(cfg) == Some(to_vec_pretty(cfg))

\* the in-memory policy after the refresh of a scan, given what
\* read_policy_from_disk returned; this one falls back to the default policy
refreshed_or_default(cfg, current) ==
    IF cfg # None THEN unwrap(cfg) ELSE EmptyPolicy

\* the in-memory policy after the refresh of a scan, given what
\* read_policy_from_disk returned
refreshed(cfg, current) ==
    IF cfg # None THEN unwrap(cfg) ELSE current

\* the documents an editor or save_policy_config puts on disk
Documents == {EmptyPolicy, AppPolicy}

\* start_daemon arguments
Intervals == {2}

Activity(event, pid) == [event |-> event, pid |-> pid]

\* the Activity with its timestamp, chrono::Utc::now() when it is built
StampedActivity(event, pid, timestamp) ==
    [event |-> event, pid |-> pid, timestamp |-> timestamp]

\* v.insert(0, act) without the truncation
store_activity_unbounded(v, act) == <<act>> \o v

\* store_activity that drops the newest entry on overflow
store_activity_keep_oldest(v, act) ==
    LET v2 == <<act>> \o v
    IN IF Len(v2) > ActivityCap THEN SubSeq(v2, 2, ActivityCap + 1) ELSE v2

\* store_activity that pushes at the back of the vector
store_activity_push(v, act) ==
    LET v2 == v \o <<act>>
    IN IF Len(v2) > ActivityCap THEN SubSeq(v2, 1, ActivityCap) ELSE v2

\* v.insert(0, act); if v.len() > 10000 { v.truncate(10000) }
store_activity(v, act) ==
    LET v2 == <<act>> \o v
    IN IF Len(v2) > ActivityCap THEN SubSeq(v2, 1, ActivityCap) ELSE v2

\* push_activity on the activities vector: newest first, at most ActivityCap kept
push_activity(v, event, pid) == store_activity(v, Activity(event, pid))

\* Logger::new: max_memory_logs
max_memory_logs == 1000

\* while logs.len() > max_memory_logs { logs.pop_front() }
RECURSIVE pop_excess(_)
pop_excess(logs) ==
    IF Len(logs) > max_memory_logs THEN pop_excess(Tail(logs)) ELSE logs

\* Logger::log_event on in_memory_logs: oldest first
log_event(logs, enabled, event) ==
    IF ~enabled THEN logs ELSE pop_excess(Append(logs, event))

\* a LogEvent, by its variant; log_event reads none of its fields
LogEvent(event_type) == [event_type |-> event_type]

\* after_detect with the elevation flag ignored
after_detect_no_admin(dry_run, admin) ==
    IF dry_run THEN "none" ELSE "kill"

\* after_detect with the dry-run flag ignored
after_detect_no_dry_run(dry_run, admin) ==
    IF ~admin THEN "restricted" ELSE "kill"

\* what a scan does with a record once it is detected: nothing more in dry-run
\* mode, a KILL_FAIL when not elevated, else a call of win::kill_process
after_detect(dry_run, admin) ==
    IF dry_run THEN "none"
    ELSE IF ~admin THEN "restricted"
    ELSE "kill"

(***************************************************************************)
(* edr/config.rs: the configuration document, Config::load and validate.   *)
(***************************************************************************)
Config(bl, wl, si, ft) ==
    [blacklist |-> bl, whitelist |-> wl, scan_interval_ms |-> si,
     force_kill_timeout_ms |-> ft]

\* file_name() of std::env::current_exe(): the name of the agent's process
exe_name == <<"e">>

\* the critical system process names of Config::load, reduced to one
system_processes == << <<"c">> >>

self_protection == Rule("self_protection", "name", exe_name, "none")

\* format!("system_{}", proc_name)
system_id(proc_name) == IF proc_name = <<"c">> THEN "system_c" ELSE "system_"

system_rule(proc_name) == Rule(system_id(proc_name), "name", proc_name, "none")

\* the rules Config::load pushes on the whitelist: the self-protection rule
\* when current_exe() is Ok, the system rules when built for Windows
built_in_rules(exe_ok, windows) ==
    (IF exe_ok THEN <<self_protection>> ELSE <<>>)
    \o (IF windows THEN [i \in DOMAIN system_processes |-> system_rule(system_processes[i])]
        ELSE <<>>)

\* Config::load, once the document is read and parsed
load(config, exe_ok, windows) ==
    [config EXCEPT !.whitelist = @ \o built_in_rules(exe_ok, windows)]

\* Config::validate: "Ok" or the error
validate(config) ==
    IF config.blacklist = <<>> /\ config.whitelist = <<>> THEN "NoRules"
    ELSE IF config.scan_interval_ms < 100 THEN "ScanInterval"
    ELSE IF config.force_kill_timeout_ms < 100 THEN "ForceKillTimeout"
    ELSE "Ok"

\* the documents drawn for validation
ConfigUniverse ==
    { Config(bl, wl, si, ft) :
        bl \in {<<>>, <<R_name>>, <<R_cmd>>}, wl \in {<<>>, <<R_name>>, <<R_cmd>>},
        si \in {99, 100}, ft \in {99, 100} }

(***************************************************************************)
(* State.                                                                  *)
(***************************************************************************)
VARIABLES
    \* matchers under test: the policy and record drawn, and what was returned
    m_policy, m_process, m_phase, m_verdict, m_decision

    \* the monotonic clock, Instant::now()
VARIABLES now
    \* ProcessKiller: its KillPolicy and its two maps; k_last is the last request
    \* and what it returned; k_history observes, per PID, the requests that called
    \* a termination primitive: how many in all (total), how many failed since
    \* the PID's state was last created (fails), when the last one ended
    \* (last_end) and how long after the one before it began (last_gap); k_calls
    \* observes the last request: what each termination primitive returned
    \* ("none": not called) and whether the target had exited when a successful
    \* graceful_terminate returned
VARIABLES k_policy, cooldown_tracker, retry_tracker, k_last, k_history, k_calls

matchVars == <<m_policy, m_process, m_phase, m_verdict, m_decision>>
killerVars == <<k_policy, cooldown_tracker, retry_tracker, k_last, k_history, k_calls>>

    \* AppState of main.rs; disk is the policy document on disk (None: missing
    \* or unparsable); worker_lock is the holder of the worker mutex; os_alive
    \* is the set of live processes of the host
VARIABLES daemon_running, worker, worker_lock, policy, disk, is_admin,
          detected_threats, killed_processes, scan_count, activities,
          block_restart_until, os_alive
    \* the threads: what each is executing and its local variables; the
    \* commands still to be issued; whether emergency_stop has returned
VARIABLES thr, ops_left, estop_done
    \* the validate command of the edr binary: the document and platform
    \* drawn, how far the command is, the loaded Config and validate's result
VARIABLES c_input, c_phase, c_loaded, c_result
    \* the activity each thread has built and not yet inserted (push_activity),
    \* and the Logger's in_memory_logs
VARIABLES pending, in_memory_logs
    \* the "scan-event" notifications the scans have emitted, oldest first
VARIABLES scan_events
    \* what the log specification observes of the two buffers: every entry
    \* stored in activities (how many the vector was filled with at the start,
    \* and the entries pushed since) and in in_memory_logs (since it was last
    \* cleared), in the order of the stores
VARIABLES act_history, log_history
    \* the last read of the Logger's buffer: the call and what it returned
VARIABLES l_returned
    \* AppState.hmac_key; the event lines written to the log file, and the
    \* entries of the sidecar file logs/edr_kill_switch.hmac
VARIABLES hmac_key, audit_log, sidecar
    \* the scanner threads whose tick has read policy.json and not yet cloned
    \* the policy, and whose read the file has since moved on from
VARIABLES superseded
    \* the executable files of the host by path (None: unreadable), the
    \* ProcessScanner's hash_cache, and what the first and the last call of
    \* each hash function returned for a path (None: not called yet)
VARIABLES files, hash_cache, h_first, h_last
    \* ProcessScanner::get_process_tree: the process list scan_processes
    \* returned and the root asked for, what build_tree made of them (None: not
    \* called yet), and what get_all_pids returned for that tree
VARIABLES tree_processes, tree_root_pid, tree_built, tree_pids

appVars == <<daemon_running, worker, worker_lock, policy, disk, is_admin,
             detected_threats, killed_processes, scan_count, activities,
             block_restart_until, os_alive, thr, ops_left, estop_done>>

cfgVars == <<c_input, c_phase, c_loaded, c_result>>
auditVars == <<hmac_key, audit_log, sidecar>>
logVars == <<pending, in_memory_logs, scan_events, act_history, log_history, l_returned, auditVars>>
treeVars == <<tree_processes, tree_root_pid, tree_built, tree_pids>>
hashVars == <<files, hash_cache, h_first, h_last, treeVars>>

vars == <<matchVars, now, killerVars, appVars, cfgVars, hashVars, logVars, superseded>>

\* sequences without repetition, of length n, over the set S
RECURSIVE SeqsNoRep(_, _)
SeqsNoRep(S, n) ==
    IF n = 0 THEN {<<>>}
    ELSE UNION { { <<x>> \o s : s \in SeqsNoRep(S \ {x}, n - 1) } : x \in S }

\* policy documents with unique rules, at most MaxRules of them in all
PolicyUniverse ==
    UNION { { PolicyConfig(SubSeq(s, 1, k), SubSeq(s, k + 1, Len(s))) : k \in 0..Len(s) }
            : s \in UNION { SeqsNoRep(RuleUniverse, n) : n \in 0..MaxRules } }

MatchIdle ==
    /\ m_policy = PolicyConfig(<<>>, <<>>)
    /\ m_process = ProcessInfo(0, <<>>, None, None, <<>>)
    /\ m_phase = "idle"
    /\ m_verdict = None
    /\ m_decision = "none"

EmptyMap == [x \in {} |-> 0]

CfgIdle ==
    /\ c_input = [config |-> Config(<<>>, <<>>, 0, 0), exe_ok |-> FALSE, windows |-> FALSE]
    /\ c_phase = "idle"
    /\ c_loaded = Config(<<>>, <<>>, 0, 0)
    /\ c_result = "none"

\* the executable paths hashed, and the two hash functions
HashPaths == {<<"x">>, <<"b">>}
Hashers == {"calculate_file_hash", "compute_sha256_hex"}

TreeIdle ==
    /\ tree_processes = <<>>
    /\ tree_root_pid = 0
    /\ tree_built = None
    /\ tree_pids = None

HashIdle ==
    /\ files = [p \in HashPaths |-> None]
    /\ hash_cache = EmptyMap
    /\ h_first = [f \in Hashers |-> [p \in HashPaths |-> None]]
    /\ h_last = [f \in Hashers |-> [p \in HashPaths |-> None]]
    /\ TreeIdle

\* nothing stored in activities yet
NoStores == [filled |-> 0, pushed |-> <<>>]

\* AppState::default(): no key; nothing written yet
AuditIdle ==
    /\ hmac_key = None
    /\ audit_log = <<>>
    /\ sidecar = <<>>

LogIdle ==
    /\ pending = [t \in {} |-> 0]
    /\ in_memory_logs = <<>>
    /\ scan_events = <<>>
    /\ act_history = NoStores
    /\ log_history = <<>>
    /\ l_returned = None
    /\ AuditIdle

NoHistory == [total |-> 0, fails |-> 0, last_end |-> None, last_gap |-> None]

Calls(graceful, forceful, exited) == [graceful |-> graceful, forceful |-> forceful, exited |-> exited]
NoCalls == Calls("none", "none", FALSE)

KillerIdle ==
    /\ k_policy = KillPolicy(TRUE, 1, 2, 1)
    /\ cooldown_tracker = EmptyMap
    /\ retry_tracker = EmptyMap
    /\ k_last = None
    /\ k_history = [p \in KPids |-> NoHistory]
    /\ k_calls = NoCalls

\* a thread's locals: the command it runs (op) and where it is in it (pc); the
\* policy read from disk (cfg) and the clone of the shared policy (pol); the
\* snapshot still to walk (list) and the PID being killed (cur); the daemon's
\* arguments; the scanner thread a worker spawned or joins (handle).
\* last_try and gap observe a thread's calls of win::kill_process: the last
\* one, and how long after the one before it on the same PID it was made.
\* late: the scanner was spawned by a start_daemon made after emergency_stop
\* had returned.
\* overrun: the records of its running tick a scanner thread went on to
\* handle while daemon_running was clear.
IdleCtx ==
    [pc |-> "idle", op |-> "none", cfg |-> None, pol |-> EmptyPolicy, list |-> <<>>,
     cur |-> 0, dry_run |-> FALSE, interval |-> 0, wake_at |-> 0, handle |-> None,
     last_try |-> None, gap |-> None, late |-> FALSE, overrun |-> 0]

Unborn == [IdleCtx EXCEPT !.pc = "unborn", !.op = "daemon"]

\* the agent at rest, with ops events still to come on the host
AppQuiet(ops) ==
    /\ superseded = {}
    /\ daemon_running = FALSE
    /\ worker = None
    /\ worker_lock = None
    /\ policy = EmptyPolicy
    /\ disk = None
    /\ is_admin = FALSE
    /\ detected_threats = 0
    /\ killed_processes = 0
    /\ scan_count = 0
    /\ activities = <<>>
    /\ block_restart_until = EmptyMap
    /\ os_alive = OtherPids
    /\ thr = [t \in Threads |-> IF t \in Workers THEN IdleCtx ELSE Unborn]
    /\ ops_left = ops
    /\ estop_done = FALSE

AppIdle == AppQuiet(0)

InitPolicy ==
    /\ now = 0
    /\ KillerIdle
    /\ AppIdle
    /\ CfgIdle
    /\ LogIdle
    /\ HashIdle
    /\ m_policy \in PolicyUniverse
    /\ m_process \in RecordUniverse
    /\ m_phase = "input"
    /\ m_verdict = None
    /\ m_decision = "none"

\* one evaluation of the drawn record: PolicyEngine::evaluate, and what a
\* scan of main.rs decides for it
Classify ==
    /\ m_phase = "input"
    /\ m_phase' = "done"
    /\ m_verdict' = evaluate(m_policy.whitelist, m_policy.blacklist, m_process)
    /\ m_decision' = classify_record(m_process, m_policy)
    /\ UNCHANGED <<m_policy, m_process, now, killerVars, appVars, cfgVars, hashVars, logVars, superseded>>

NextPolicy == Classify

SpecPolicy == InitPolicy /\ [][NextPolicy]_vars

(***************************************************************************)
(* The kill governor.                                                      *)
(***************************************************************************)
InitKiller ==
    /\ now = 0
    /\ MatchIdle
    /\ AppIdle
    /\ CfgIdle
    /\ LogIdle
    /\ HashIdle
    /\ k_policy \in KillPolicyUniverse
    /\ cooldown_tracker = EmptyMap
    /\ retry_tracker = EmptyMap
    /\ k_last = None
    /\ k_history = [p \in KPids |-> NoHistory]
    /\ k_calls = NoCalls

\* time passes between two calls
Tick ==
    /\ now < MaxTime
    /\ now' = now + 1
    /\ UNCHANGED <<matchVars, killerVars, appVars, cfgVars, hashVars, logVars, superseded>>

Returned(pid, result) == Some([pid |-> pid, result |-> result])

\* k_history of a PID after a request that began at start, ended at end and
\* succeeded or not
Attempt(h, start, end, ok) ==
    [total    |-> h.total + 1,
     fails    |-> IF ok THEN h.fails ELSE h.fails + 1,
     last_end |-> Some(end),
     last_gap |-> IF h.last_end = None THEN None ELSE Some(start - unwrap(h.last_end))]

\* ProcessKiller::kill_process(pid, name).  graceful and forceful are what the
\* two termination primitives return if they are called; exited tells whether
\* the target is gone when a successful graceful_terminate returns (the SIGTERM
\* can be caught or ignored, and its effect is not waited for).
ProcessKiller_kill_process(pid, graceful, forceful, exited) ==
    /\ throttled(k_policy, cooldown_tracker, retry_tracker, pid, now) = "no"
          => k_history[pid].total < MaxAttempts
    /\ IF throttled(k_policy, cooldown_tracker, retry_tracker, pid, now) # "no"
       THEN /\ k_last' = Returned(pid, throttled(k_policy, cooldown_tracker, retry_tracker, pid, now))
            /\ k_calls' = NoCalls
            /\ UNCHANGED <<now, cooldown_tracker, retry_tracker, k_history>>
       ELSE IF k_policy.graceful_kill /\ graceful = "Ok"
       THEN \* graceful_terminate succeeded
            /\ cooldown_tracker' = insert(cooldown_tracker, pid, now)
            /\ k_last' = Returned(pid, "Ok")
            /\ k_calls' = Calls("Ok", "none", exited)
            /\ k_history' = [k_history EXCEPT ![pid] = Attempt(@, now, now, TRUE)]
            /\ UNCHANGED <<now, retry_tracker>>
       ELSE LET t == IF k_policy.graceful_kill
                     THEN now + k_policy.force_kill_timeout_ms   \* thread::sleep
                     ELSE now
            IN /\ t <= MaxTime
               /\ now' = t
               /\ cooldown_tracker' = insert(cooldown_tracker, pid, t)
               /\ k_calls' = Calls(IF k_policy.graceful_kill THEN graceful ELSE "none", forceful, FALSE)
               /\ IF forceful = "Ok"
                  THEN /\ k_last' = Returned(pid, "Ok")
                       /\ UNCHANGED retry_tracker
                  ELSE /\ k_last' = Returned(pid, forceful)   \* Err(e) => ... Err(e)
                       /\ retry_tracker' = failed_attempt(retry_tracker, pid)
               /\ k_history' = [k_history EXCEPT ![pid] = Attempt(@, now, t, forceful = "Ok")]
    /\ UNCHANGED <<matchVars, k_policy, appVars, cfgVars, hashVars, logVars, superseded>>

KillRequest ==
    \E pid \in KPids, graceful \in {"Ok", "Err"}, forceful \in ForceResults :
        \E exited \in IF graceful = "Ok" THEN BOOLEAN ELSE {FALSE} :
            ProcessKiller_kill_process(pid, graceful, forceful, exited)

\* ProcessKiller::cleanup_old_entries
cleanup_old_entries ==
    LET kept == { pid \in DOMAIN cooldown_tracker :
                      now - cooldown_tracker[pid] < CleanupTimeout }
        cooldown2 == retain(cooldown_tracker, kept)
        active(pid) == pid \in DOMAIN cooldown2
    IN /\ cooldown_tracker' = cooldown2
       /\ retry_tracker' = retain(retry_tracker, DOMAIN cooldown2)
       /\ k_history' = [p \in KPids |->
              IF p \in DOMAIN cooldown_tracker /\ ~active(p)
              THEN [k_history[p] EXCEPT !.fails = 0]
              ELSE k_history[p]]
       /\ k_last' = None
       /\ k_calls' = NoCalls
       /\ UNCHANGED <<now, k_policy, matchVars, appVars, cfgVars, hashVars, logVars, superseded>>

NextKiller == Tick \/ KillRequest

NextKillerReap == Tick \/ KillRequest \/ cleanup_old_entries

SpecKiller == InitKiller /\ [][NextKiller]_vars

SpecKillerReap == InitKiller /\ [][NextKillerReap]_vars

(***************************************************************************)
(* The validate command of the edr binary (edr/main.rs).                   *)
(***************************************************************************)
InitValidate ==
    /\ now = 0
    /\ MatchIdle
    /\ KillerIdle
    /\ AppIdle
    /\ LogIdle
    /\ HashIdle
    /\ c_input \in [config : ConfigUniverse, exe_ok : BOOLEAN, windows : BOOLEAN]
    /\ c_phase = "input"
    /\ c_loaded = Config(<<>>, <<>>, 0, 0)
    /\ c_result = "none"

\* main: let config = Config::load(&cli.config)?
Config_load ==
    /\ c_phase = "input"
    /\ c_phase' = "loaded"
    /\ c_loaded' = load(c_input.config, c_input.exe_ok, c_input.windows)
    /\ UNCHANGED <<c_input, c_result, matchVars, now, killerVars, appVars, hashVars, logVars, superseded>>

\* main: Commands::Validate: config.validate()
Config_validate ==
    /\ c_phase = "loaded"
    /\ c_phase' = "validated"
    /\ c_result' = validate(c_loaded)
    /\ UNCHANGED <<c_input, c_loaded, matchVars, now, killerVars, appVars, hashVars, logVars, superseded>>

NextValidate == Config_load \/ Config_validate

SpecValidate == InitValidate /\ [][NextValidate]_vars

(***************************************************************************)
(* The engine built from a loaded configuration (edr/policy.rs).           *)
(***************************************************************************)
InitBuiltIn ==
    /\ now = 0
    /\ KillerIdle
    /\ AppIdle
    /\ LogIdle
    /\ HashIdle
    /\ c_input \in [config : ConfigUniverse, exe_ok : BOOLEAN, windows : BOOLEAN]
    /\ c_phase = "input"
    /\ c_loaded = Config(<<>>, <<>>, 0, 0)
    /\ c_result = "none"
    /\ m_policy = PolicyConfig(<<>>, <<>>)
    /\ m_process \in RecordUniverse
    /\ m_phase = "input"
    /\ m_verdict = None
    /\ m_decision = "none"

\* PolicyEngine::new(&config): the two lists of the loaded configuration
PolicyEngine_new(config) == PolicyConfig(config.whitelist, config.blacklist)

\* PolicyEngine::new(&config) and one evaluate(process) of the engine
PolicyEngine_evaluate ==
    /\ c_phase = "loaded"
    /\ m_phase = "input"
    /\ m_phase' = "done"
    /\ m_policy' = PolicyEngine_new(c_loaded)
    /\ m_verdict' = evaluate(PolicyEngine_new(c_loaded).whitelist,
                             PolicyEngine_new(c_loaded).blacklist, m_process)
    /\ UNCHANGED <<m_process, m_decision, now, killerVars, appVars, cfgVars, hashVars, logVars, superseded>>

NextBuiltIn == Config_load \/ PolicyEngine_evaluate

SpecBuiltIn == InitBuiltIn /\ [][NextBuiltIn]_vars

(***************************************************************************)
(* The desktop agent: commands run by the request workers, and the scanner *)
(* threads start_daemon spawns.  A step is one access to shared state.     *)
(***************************************************************************)
InitWith(documents, privileges, others) ==
    /\ now = 0
    /\ superseded = {}
    /\ MatchIdle
    /\ KillerIdle
    /\ CfgIdle
    /\ LogIdle
    /\ HashIdle
    /\ daemon_running = FALSE
    /\ worker = None
    /\ worker_lock = None
    /\ policy = EmptyPolicy
    /\ disk \in documents
    /\ is_admin \in privileges
    /\ detected_threats = 0
    /\ killed_processes = 0
    /\ scan_count = 0
    /\ activities = <<>>
    /\ block_restart_until = EmptyMap
    /\ os_alive = others
    /\ thr = [t \in Threads |-> IF t \in Workers THEN IdleCtx ELSE Unborn]
    /\ ops_left = MaxOps
    /\ estop_done = FALSE

\* the agent starts beside the other processes, with or without a policy
\* document on disk, elevated or not
InitApp == InitWith({None, write_policy_to_disk(AppPolicy)}, BOOLEAN, OtherPids)

\* the agent starts with no policy document and nothing else running
InitCtl == InitWith({None}, {FALSE}, {})

IsDaemon(t) == t \in Scanners

\* the file is written: the ticks that hold an earlier read of it
FileWritten ==
    superseded' = superseded \cup { t \in Scanners : thr[t].pc \in {"assign", "clone"} }

Set(t, c) == thr' = [thr EXCEPT ![t] = c]

\* a worker takes up its next command
Begins(w) == w \in Workers /\ thr[w].pc = "idle" /\ ops_left > 0 /\ ops_left' = ops_left - 1

\* a worker's command returns
Return(w) == Set(w, IdleCtx)

\* ---- the scan: start_single_scan on a worker, the loop body on a scanner ----

\* start_single_scan: read_policy_from_disk
SingleScanReadDisk(w) ==
    /\ Begins(w)
    /\ Set(w, [IdleCtx EXCEPT !.op = "scan", !.pc = "assign",
                              !.cfg = read_policy_from_disk(disk)])
    /\ UNCHANGED <<daemon_running, worker, worker_lock, policy, disk, is_admin,
                   detected_threats, killed_processes, scan_count, activities,
                   block_restart_until, os_alive, estop_done>>
    /\ UNCHANGED <<matchVars, now, killerVars, cfgVars, hashVars, logVars, superseded>>

\* the scanner thread's loop top: the sleep is over, the flag is loaded and,
\* when it is set, read_policy_from_disk is called
DaemonLoopTop(t) ==
    /\ IsDaemon(t)
    /\ \/ thr[t].pc = "check"
       \/ thr[t].pc = "sleep" /\ now >= thr[t].wake_at
    /\ IF daemon_running
       THEN Set(t, [thr[t] EXCEPT !.pc = "assign", !.wake_at = 0,
                                  !.cfg = read_policy_from_disk(disk)])
       ELSE Set(t, [thr[t] EXCEPT !.pc = "exited"])
    /\ superseded' = superseded \ {t}
    /\ UNCHANGED <<daemon_running, worker, worker_lock, policy, disk, is_admin,
                   detected_threats, killed_processes, scan_count, activities,
                   block_restart_until, os_alive, ops_left, estop_done>>
    /\ UNCHANGED <<matchVars, now, killerVars, cfgVars, hashVars, logVars>>

\* *state.policy.lock().unwrap() = cfg, when the document was read; cfg is
\* kept until the scan ends, as a record of what this scan read
AssignPolicy(t) ==
    /\ thr[t].op \in {"scan", "daemon"}
    /\ thr[t].pc = "assign"
    /\ policy' = refreshed(thr[t].cfg, policy)
    /\ Set(t, [thr[t] EXCEPT !.pc = "clone"])
    /\ UNCHANGED <<daemon_running, worker, worker_lock, disk, is_admin,
                   detected_threats, killed_processes, scan_count, activities,
                   block_restart_until, os_alive, ops_left, estop_done>>
    /\ UNCHANGED <<matchVars, now, killerVars, cfgVars, hashVars, logVars, superseded>>

\* snapshot_failed with the scanner thread leaving its loop
snapshot_failed_exits(c, daemon, at) ==
    IF daemon THEN [c EXCEPT !.pc = "exited", !.cfg = None] ELSE IdleCtx

\* a thread's locals after win::list_processes returned Err at time at:
\* start_single_scan returns the error, the scanner thread sleeps interval
\* and continues with its loop
snapshot_failed(c, daemon, at) ==
    IF daemon
    THEN [c EXCEPT !.pc = "sleep", !.cfg = None, !.wake_at = at + c.interval]
    ELSE IdleCtx

\* the policy is cloned and win::list_processes called: on Err a single scan
\* returns and the scanner thread sleeps; on Ok scan_count is incremented and
\* the "scan-event" SCAN_START emitted
Snapshot(t, ok) ==
    /\ thr[t].op \in {"scan", "daemon"}
    /\ thr[t].pc = "clone"
    /\ IF ok
       THEN /\ scan_count' = scan_count + 1
            /\ scan_events' = Append(scan_events, "SCAN_START")
            /\ Set(t, [thr[t] EXCEPT !.pc = "loop", !.pol = policy,
                                     !.list = list_processes(os_alive)])
       ELSE /\ scan_count' = scan_count
            /\ scan_events' = scan_events
            /\ Set(t, snapshot_failed(thr[t], IsDaemon(t), now))
    /\ UNCHANGED <<daemon_running, worker, worker_lock, policy, disk, is_admin,
                   detected_threats, killed_processes, activities,
                   block_restart_until, os_alive, ops_left, estop_done>>
    /\ UNCHANGED <<matchVars, now, killerVars, cfgVars, hashVars, pending, in_memory_logs,
                   act_history, log_history, l_returned, auditVars, superseded>>

\* the thread's locals when it calls win::kill_process(p)
Killing(c, p) ==
    [c EXCEPT !.pc = "kill", !.cur = p, !.list = Tail(c.list),
              !.last_try = Some([pid |-> p, at |-> now]),
              !.gap = IF c.last_try # None /\ unwrap(c.last_try).pid = p
                      THEN Some(now - unwrap(c.last_try).at)
                      ELSE None]

\* the loop body for the next record of the snapshot, up to the call of
\* win::kill_process
ScanRecord(t) ==
    /\ thr[t].op \in {"scan", "daemon"}
    /\ thr[t].pc = "loop"
    /\ thr[t].list # <<>>
    /\ LET p == Head(thr[t].list)
           me == [thr[t] EXCEPT !.overrun = IF IsDaemon(t) /\ ~daemon_running
                                            THEN @ + 1 ELSE @]
           next == [me EXCEPT !.list = Tail(me.list)]
       IN IF classify_record(os_record(p), thr[t].pol) # "denied"
          THEN /\ Set(t, next)
               /\ UNCHANGED <<detected_threats, activities>>
          ELSE /\ detected_threats' = detected_threats + 1
               /\ LET todo == after_detect(thr[t].dry_run, is_admin)
                      seen == push_activity(activities, "DETECTED", Some(p))
                  IN CASE todo = "none" ->
                            /\ activities' = seen
                            /\ Set(t, next)
                       [] todo = "restricted" ->
                            /\ activities' = push_activity(seen, "KILL_FAIL", Some(p))
                            /\ Set(t, next)
                       [] OTHER ->
                            /\ activities' = seen
                            /\ Set(t, Killing(me, p))
    /\ UNCHANGED <<daemon_running, worker, worker_lock, policy, disk, is_admin,
                   killed_processes, scan_count, block_restart_until, os_alive,
                   ops_left, estop_done>>
    /\ UNCHANGED <<matchVars, now, killerVars, cfgVars, hashVars, logVars, superseded>>

\* win::kill_process returns Ok(true): the grace period has passed and
\* TerminateProcess found the process alive
Terminated(c) ==
    /\ c.cur \in os_alive
    /\ now >= unwrap(c.last_try).at + GracePeriod

\* win::kill_process returns to the scan
ScanKillReturns(t, ok) ==
    /\ thr[t].op \in {"scan", "daemon"}
    /\ thr[t].pc = "kill"
    /\ LET p == thr[t].cur
       IN IF ok
          THEN /\ Terminated(thr[t])
               /\ os_alive' = os_alive \ {p}
               /\ killed_processes' = killed_processes + 1
               /\ activities' = push_activity(activities, "KILL_SUCCESS", Some(p))
               /\ block_restart_until' =
                    IF IsDaemon(t) /\ os_record(p).path # None
                    THEN insert(block_restart_until, unwrap(os_record(p).path), now + RestartBlock)
                    ELSE block_restart_until
          ELSE /\ activities' = push_activity(activities, "KILL_FAIL", Some(p))
               /\ UNCHANGED <<os_alive, killed_processes, block_restart_until>>
    /\ Set(t, [thr[t] EXCEPT !.pc = "loop", !.cur = 0])
    /\ UNCHANGED <<daemon_running, worker, worker_lock, policy, disk, is_admin,
                   detected_threats, scan_count, ops_left, estop_done>>
    /\ UNCHANGED <<matchVars, now, killerVars, cfgVars, hashVars, logVars, superseded>>

\* the snapshot is walked: a single scan returns, the scanner thread sleeps
ScanEnds(t) ==
    /\ thr[t].op \in {"scan", "daemon"}
    /\ thr[t].pc = "loop"
    /\ thr[t].list = <<>>
    /\ IF IsDaemon(t)
       THEN Set(t, [thr[t] EXCEPT !.pc = "sleep", !.cfg = None, !.overrun = 0,
                                !.wake_at = now + thr[t].interval])
       ELSE Return(t)
    /\ UNCHANGED <<daemon_running, worker, worker_lock, policy, disk, is_admin,
                   detected_threats, killed_processes, scan_count, activities,
                   block_restart_until, os_alive, ops_left, estop_done>>
    /\ UNCHANGED <<matchVars, now, killerVars, cfgVars, hashVars, logVars, superseded>>

\* ---- daemon control ----

FreeSlots == { t \in Scanners : thr[t].pc = "unborn" }

\* start_daemon: daemon_running.swap(true); when it was clear, thread::spawn
start_daemon(w, interval, dry_run) ==
    /\ Begins(w)
    /\ daemon_running \/ FreeSlots # {}
    /\ daemon_running' = TRUE
    /\ IF daemon_running
       THEN Return(w)
       ELSE LET t == CHOOSE x \in FreeSlots : \A y \in FreeSlots : x[2] <= y[2]
            IN thr' = [thr EXCEPT
                         ![t] = [Unborn EXCEPT !.pc = "check", !.interval = interval,
                                               !.dry_run = dry_run, !.late = estop_done],
                         ![w] = [IdleCtx EXCEPT !.op = "start", !.pc = "store", !.handle = Some(t)]]
    /\ UNCHANGED <<worker, worker_lock, policy, disk, is_admin,
                   detected_threats, killed_processes, scan_count, activities,
                   block_restart_until, os_alive, estop_done>>
    /\ UNCHANGED <<matchVars, now, killerVars, cfgVars, hashVars, logVars, superseded>>

\* start_daemon: *state.worker.lock().unwrap() = Some(handle)
StoreHandle(w) ==
    /\ thr[w].op = "start"
    /\ thr[w].pc = "store"
    /\ worker_lock = None
    /\ worker' = thr[w].handle
    /\ Return(w)
    /\ UNCHANGED <<daemon_running, worker_lock, policy, disk, is_admin,
                   detected_threats, killed_processes, scan_count, activities,
                   block_restart_until, os_alive, ops_left, estop_done>>
    /\ UNCHANGED <<matchVars, now, killerVars, cfgVars, hashVars, logVars, superseded>>

\* stop_daemon / emergency_stop: daemon_running.store(false)
StoreFlag(w, op) ==
    /\ Begins(w)
    /\ daemon_running' = FALSE
    /\ Set(w, [IdleCtx EXCEPT !.op = op, !.pc = "take"])
    /\ UNCHANGED <<worker, worker_lock, policy, disk, is_admin,
                   detected_threats, killed_processes, scan_count, activities,
                   block_restart_until, os_alive, estop_done>>
    /\ UNCHANGED <<matchVars, now, killerVars, cfgVars, hashVars, logVars, superseded>>

\* where a stop goes once the handle is dealt with
AfterJoin(w) ==
    IF thr[w].op = "estop" THEN Set(w, [IdleCtx EXCEPT !.op = "estop", !.pc = "push"])
    ELSE Return(w)

\* state.worker.lock().unwrap().take(): the guard is a temporary of the if-let
\* and lives until the join is over
TakeHandle(w) ==
    /\ thr[w].op \in {"stop", "estop"}
    /\ thr[w].pc = "take"
    /\ worker_lock = None
    /\ worker' = None
    /\ IF worker = None
       THEN /\ AfterJoin(w)
            /\ UNCHANGED worker_lock
       ELSE /\ worker_lock' = Some(w)
            /\ Set(w, [thr[w] EXCEPT !.pc = "join", !.handle = worker])
    /\ UNCHANGED <<daemon_running, policy, disk, is_admin,
                   detected_threats, killed_processes, scan_count, activities,
                   block_restart_until, os_alive, ops_left, estop_done>>
    /\ UNCHANGED <<matchVars, now, killerVars, cfgVars, hashVars, logVars, superseded>>

\* h.join() returns once the scanner thread has exited
JoinReturns(w) ==
    /\ thr[w].op \in {"stop", "estop"}
    /\ thr[w].pc = "join"
    /\ thr[unwrap(thr[w].handle)].pc = "exited"
    /\ worker_lock' = None
    /\ AfterJoin(w)
    /\ UNCHANGED <<daemon_running, worker, policy, disk, is_admin,
                   detected_threats, killed_processes, scan_count, activities,
                   block_restart_until, os_alive, ops_left, estop_done>>
    /\ UNCHANGED <<matchVars, now, killerVars, cfgVars, hashVars, logVars, superseded>>

\* emergency_stop: push_activity("ERROR", "Emergency stop activated"), return
EmergencyPush(w) ==
    /\ thr[w].op = "estop"
    /\ thr[w].pc = "push"
    /\ activities' = push_activity(activities, "ERROR", None)
    /\ estop_done' = TRUE
    /\ Return(w)
    /\ UNCHANGED <<daemon_running, worker, worker_lock, policy, disk, is_admin,
                   detected_threats, killed_processes, scan_count,
                   block_restart_until, os_alive, ops_left>>
    /\ UNCHANGED <<matchVars, now, killerVars, cfgVars, hashVars, logVars, superseded>>

\* ---- the other commands ----

\* the kill_process command: win::kill_process(pid) is called
KillCommand(w, pid) ==
    /\ Begins(w)
    /\ Set(w, [IdleCtx EXCEPT !.op = "kill", !.pc = "kill", !.cur = pid,
                              !.last_try = Some([pid |-> pid, at |-> now])])
    /\ UNCHANGED <<daemon_running, worker, worker_lock, policy, disk, is_admin,
                   detected_threats, killed_processes, scan_count, activities,
                   block_restart_until, os_alive, estop_done>>
    /\ UNCHANGED <<matchVars, now, killerVars, cfgVars, hashVars, logVars, superseded>>

\* win::kill_process returns to the kill_process command
KillCommandReturns(w, ok) ==
    /\ thr[w].op = "kill"
    /\ thr[w].pc = "kill"
    /\ IF ok
       THEN /\ Terminated(thr[w])
            /\ os_alive' = os_alive \ {thr[w].cur}
       ELSE UNCHANGED os_alive
    /\ Return(w)
    /\ UNCHANGED <<daemon_running, worker, worker_lock, policy, disk, is_admin,
                   detected_threats, killed_processes, scan_count, activities,
                   block_restart_until, ops_left, estop_done>>
    /\ UNCHANGED <<matchVars, now, killerVars, cfgVars, hashVars, logVars, superseded>>

\* save_policy_config: write_policy_to_disk
SavePolicyWrite(w, cfg) ==
    /\ Begins(w)
    /\ disk' = write_policy_to_disk(cfg)
    /\ Set(w, [IdleCtx EXCEPT !.op = "save", !.pc = "assign", !.cfg = Some(cfg)])
    /\ FileWritten
    /\ UNCHANGED <<daemon_running, worker, worker_lock, policy, is_admin,
                   detected_threats, killed_processes, scan_count, activities,
                   block_restart_until, os_alive, estop_done>>
    /\ UNCHANGED <<matchVars, now, killerVars, cfgVars, hashVars, logVars>>

\* save_policy_config: *state.policy.lock().unwrap() = cfg
SavePolicyAssign(w) ==
    /\ thr[w].op = "save"
    /\ thr[w].pc = "assign"
    /\ policy' = unwrap(thr[w].cfg)
    /\ Return(w)
    /\ UNCHANGED <<daemon_running, worker, worker_lock, disk, is_admin,
                   detected_threats, killed_processes, scan_count, activities,
                   block_restart_until, os_alive, ops_left, estop_done>>
    /\ UNCHANGED <<matchVars, now, killerVars, cfgVars, hashVars, logVars, superseded>>

ScanSteps(t) ==
    \/ AssignPolicy(t)
    \/ \E ok \in BOOLEAN : Snapshot(t, ok)
    \/ ScanRecord(t)
    \/ \E ok \in BOOLEAN : ScanKillReturns(t, ok)
    \/ ScanEnds(t)

ControlSteps(w) ==
    \/ \E i \in Intervals, d \in BOOLEAN : start_daemon(w, i, d)
    \/ StoreHandle(w)
    \/ StoreFlag(w, "stop")
    \/ StoreFlag(w, "estop")
    \/ TakeHandle(w)
    \/ JoinReturns(w)
    \/ EmergencyPush(w)

\* the worker whose commands the scanning specification follows
W1 == <<"w", 1>>

\* scanning: one worker issues scans, kills, policy saves and start_daemon
\* beside the scanner threads
NextApp ==
    \/ Tick
    \/ \E t \in Scanners : DaemonLoopTop(t) \/ ScanSteps(t)
    \/ SingleScanReadDisk(W1) \/ ScanSteps(W1)
    \/ \E i \in Intervals, d \in BOOLEAN : start_daemon(W1, i, d)
    \/ StoreHandle(W1)
    \/ \E pid \in OtherPids : KillCommand(W1, pid)
    \/ \E ok \in BOOLEAN : KillCommandReturns(W1, ok)
    \/ SavePolicyWrite(W1, AppPolicy) \/ SavePolicyAssign(W1)

Spec == InitApp /\ [][NextApp]_vars

\* ---- the counters and the activity log, from a fresh and from an aged log ----

\* a log at its capacity: a restricted-mode detection of process 2, and every
\* emergency stop pushed since
AgedLog ==
    [i \in 1..(ActivityCap - 2) |-> Activity("ERROR", None)]
    \o <<Activity("KILL_FAIL", Some(2)), Activity("DETECTED", Some(2))>>

\* the agent with a policy document on disk, elevated or not, its log empty
\* or aged; one more operation is followed from the aged log
InitTally ==
    /\ now = 0
    /\ superseded = {}
    /\ MatchIdle
    /\ KillerIdle
    /\ CfgIdle
    /\ LogIdle
    /\ HashIdle
    /\ daemon_running = FALSE
    /\ worker = None
    /\ worker_lock = None
    /\ policy = EmptyPolicy
    /\ disk = write_policy_to_disk(AppPolicy)
    /\ is_admin \in BOOLEAN
    /\ \E aged \in BOOLEAN :
          /\ activities = IF aged THEN AgedLog ELSE <<>>
          /\ detected_threats = IF aged THEN 1 ELSE 0
          /\ scan_count = IF aged THEN 1 ELSE 0
          /\ ops_left = IF aged THEN 1 ELSE MaxOps
    /\ killed_processes = 0
    /\ block_restart_until = EmptyMap
    /\ os_alive = OtherPids
    /\ thr = [t \in Threads |-> IF t \in Workers THEN IdleCtx ELSE Unborn]
    /\ estop_done = FALSE

\* single scans of one worker beside the scanner thread it starts
NextTally ==
    \/ Tick
    \/ \E t \in Scanners : DaemonLoopTop(t) \/ ScanSteps(t)
    \/ SingleScanReadDisk(W1) \/ ScanSteps(W1)
    \/ \E i \in Intervals, d \in BOOLEAN : start_daemon(W1, i, d)
    \/ StoreHandle(W1)

SpecTally == InitTally /\ [][NextTally]_vars

\* ---- the host: the policy file and the processes change under the agent ----

\* one more thing happens on the host
Happens == ops_left > 0 /\ ops_left' = ops_left - 1

\* an editor replaces policy.json by a valid document
DocumentReplaced(cfg) ==
    /\ Happens
    /\ disk # write_policy_to_disk(cfg)
    /\ disk' = write_policy_to_disk(cfg)
    /\ FileWritten
    /\ UNCHANGED <<daemon_running, worker, worker_lock, policy, is_admin,
                   detected_threats, killed_processes, scan_count, activities,
                   block_restart_until, os_alive, thr, estop_done>>
    /\ UNCHANGED <<matchVars, now, killerVars, cfgVars, hashVars, logVars>>

\* policy.json is deleted, or overwritten by bytes that do not parse
DocumentLost(file) ==
    /\ Happens
    /\ read_policy_from_disk(disk) # None
    /\ read_policy_from_disk(file) = None
    /\ disk' = file
    /\ FileWritten
    /\ UNCHANGED <<daemon_running, worker, worker_lock, policy, is_admin,
                   detected_threats, killed_processes, scan_count, activities,
                   block_restart_until, os_alive, thr, estop_done>>
    /\ UNCHANGED <<matchVars, now, killerVars, cfgVars, hashVars, logVars>>

\* a terminated program is started again
Respawn(pid) ==
    /\ Happens
    /\ pid \notin os_alive
    /\ os_alive' = os_alive \cup {pid}
    /\ UNCHANGED <<daemon_running, worker, worker_lock, policy, disk, is_admin,
                   detected_threats, killed_processes, scan_count, activities,
                   block_restart_until, thr, estop_done>>
    /\ UNCHANGED <<matchVars, now, killerVars, cfgVars, hashVars, logVars, superseded>>

\* the policy store: the daemon scans while the policy is saved, the file
\* edited or lost, and killed programs restarted
NextStore ==
    \/ Tick
    \/ \E t \in Scanners : DaemonLoopTop(t) \/ ScanSteps(t)
    \/ \E i \in Intervals, d \in BOOLEAN : start_daemon(W1, i, d)
    \/ StoreHandle(W1)
    \/ \E cfg \in Documents : SavePolicyWrite(W1, cfg) \/ DocumentReplaced(cfg)
    \/ SavePolicyAssign(W1)
    \/ \E file \in {None, Some(Garbled)} : DocumentLost(file)
    \/ \E pid \in OtherPids : Respawn(pid)

SpecStore == InitApp /\ [][NextStore]_vars

(***************************************************************************)
(* The in-memory logs: push_activity by any thread of the agent, and the   *)
(* edr Logger.  push_activity builds the Activity, with its timestamp,     *)
(* before it takes the activities lock.                                    *)
(***************************************************************************)
\* a buffer of n entries made at time 0
Filled(n, entry) == [i \in 1..n |-> entry]

\* the entry the activities vector is filled with when the agent has run long
AgedActivity == StampedActivity("DETECTED", Some(2), 0)

\* the threads that push activities: a command worker and the scanner thread
Writers == {W1, <<"s", 1>>}

InitLog ==
    /\ now = 0
    /\ MatchIdle
    /\ KillerIdle
    /\ CfgIdle
    /\ HashIdle
    /\ superseded = {}
    /\ daemon_running = FALSE
    /\ worker = None
    /\ worker_lock = None
    /\ policy = EmptyPolicy
    /\ disk = None
    /\ is_admin = FALSE
    /\ detected_threats = 0
    /\ killed_processes = 0
    /\ scan_count = 0
    /\ \E full \in BOOLEAN :
          /\ activities = IF full
                          THEN Filled(ActivityCap, AgedActivity)
                          ELSE <<>>
          /\ in_memory_logs = IF full
                              THEN Filled(max_memory_logs, LogEvent("ScanStarted"))
                              ELSE <<>>
    /\ block_restart_until = EmptyMap
    /\ os_alive = OtherPids
    /\ thr = [t \in Threads |-> IF t \in Workers THEN IdleCtx ELSE Unborn]
    /\ ops_left = MaxOps
    /\ estop_done = FALSE
    /\ pending = [t \in Writers |-> None]
    /\ scan_events = <<>>
    /\ act_history = [filled |-> Len(activities), pushed |-> <<>>]
    /\ log_history = in_memory_logs
    /\ l_returned = None
    /\ AuditIdle

\* push_activity, first half: the Activity is built and stamped
BuildActivity(t, event) ==
    /\ Happens
    /\ pending[t] = None
    /\ pending' = [pending EXCEPT ![t] = Some(StampedActivity(event, None, now))]
    /\ UNCHANGED act_history
    /\ UNCHANGED <<daemon_running, worker, worker_lock, policy, disk, is_admin,
                   detected_threats, killed_processes, scan_count, activities,
                   block_restart_until, os_alive, thr, estop_done>>
    /\ UNCHANGED <<matchVars, now, killerVars, cfgVars, hashVars, in_memory_logs, scan_events, log_history, l_returned, auditVars, superseded>>

\* push_activity, second half: under the activities lock, insert and truncate
InsertActivity(t) ==
    /\ pending[t] # None
    /\ activities' = store_activity(activities, unwrap(pending[t]))
    /\ act_history' = [act_history EXCEPT !.pushed = Append(@, unwrap(pending[t]))]
    /\ pending' = [pending EXCEPT ![t] = None]
    /\ UNCHANGED <<daemon_running, worker, worker_lock, policy, disk, is_admin,
                   detected_threats, killed_processes, scan_count,
                   block_restart_until, os_alive, thr, ops_left, estop_done>>
    /\ UNCHANGED <<matchVars, now, killerVars, cfgVars, hashVars, in_memory_logs, scan_events, log_history, l_returned, auditVars, superseded>>

\* Logger::log_event
Logger_log_event(enabled, event) ==
    /\ Happens
    /\ in_memory_logs' = log_event(in_memory_logs, enabled, event)
    /\ log_history' = IF enabled THEN Append(log_history, event) ELSE log_history
    /\ UNCHANGED <<daemon_running, worker, worker_lock, policy, disk, is_admin,
                   detected_threats, killed_processes, scan_count, activities,
                   block_restart_until, os_alive, thr, estop_done>>
    /\ UNCHANGED <<matchVars, now, killerVars, cfgVars, hashVars, pending, scan_events, act_history, l_returned, auditVars, superseded>>

\* Logger::clear_logs
Logger_clear_logs ==
    /\ Happens
    /\ in_memory_logs # <<>>
    /\ in_memory_logs' = <<>>
    /\ log_history' = <<>>
    /\ UNCHANGED <<daemon_running, worker, worker_lock, policy, disk, is_admin,
                   detected_threats, killed_processes, scan_count, activities,
                   block_restart_until, os_alive, thr, estop_done>>
    /\ UNCHANGED <<matchVars, now, killerVars, cfgVars, hashVars, pending, scan_events, act_history, l_returned, auditVars, superseded>>

NextLog ==
    \/ Tick
    \/ \E t \in Writers : BuildActivity(t, "ERROR") \/ InsertActivity(t)
    \/ \E enabled \in BOOLEAN : Logger_log_event(enabled, LogEvent("SystemEvent"))
    \/ Logger_clear_logs

SpecLog == InitLog /\ [][NextLog]_vars

(***************************************************************************)
(* edr/logger.rs: the readers of the in-memory buffer.                     *)
(***************************************************************************)
\* get_recent_logs that takes from the front of the buffer
get_recent_logs_oldest(logs, limit) ==
    SubSeq(logs, 1, IF Len(logs) > limit THEN limit ELSE Len(logs))

\* logs.range(start_index..), start_index counted from 0
get_recent_logs(logs, limit) ==
    LET start_index == IF Len(logs) > limit THEN Len(logs) - limit ELSE 0
    IN SubSeq(logs, start_index + 1, Len(logs))

\* the event types asked for, and str::to_lowercase on them
QueryTypes == {"scan_start", "SYSTEM", "system_event", "kill", "event"}
to_lowercase(event_type) == IF event_type = "SYSTEM" THEN "system" ELSE event_type

matches_event_type(event, event_type) ==
    LET asked == to_lowercase(event_type)
    IN CASE event.event_type = "ProcessKilled" -> asked \in {"process_killed", "kill"}
         [] event.event_type = "ThreatDetected" -> asked \in {"threat_detected", "threat"}
         [] event.event_type = "ScanStarted" -> asked \in {"scan_started", "scan_start"}
         [] event.event_type = "ScanCompleted" -> asked \in {"scan_completed", "scan_end"}
         [] event.event_type = "ConfigurationChanged" -> asked \in {"configuration_changed", "config"}
         [] event.event_type = "SystemEvent" -> asked \in {"system_event", "system"}
         [] event.event_type = "ApplicationStarted" -> asked \in {"application_started", "start"}
         [] event.event_type = "ApplicationStopped" -> asked \in {"application_stopped", "stop"}
         [] OTHER -> FALSE

\* Iterator::rev
rev(s) == [i \in 1..Len(s) |-> s[Len(s) + 1 - i]]

\* Iterator::take
take(s, n) == SubSeq(s, 1, IF Len(s) > n THEN n ELSE Len(s))

\* logs.iter().filter(..).rev().take(limit)
get_logs_by_type(logs, event_type, limit) ==
    take(rev(SelectSeq(logs, LAMBDA log : matches_event_type(log, event_type))), limit)

\* the limits asked for
QueryLimits == {0, 1, 2, 5}

\* the events that are logged: two variants, with the timestamp their caller
\* gave them
LoggedEvents ==
    { [event_type |-> e, timestamp |-> at] : e \in {"ScanStarted", "SystemEvent"}, at \in {1, 2} }

Read(call, event_type, limit, logs) ==
    Some([call |-> call, event_type |-> event_type, limit |-> limit, logs |-> logs])

InitQuery ==
    /\ now = 0
    /\ MatchIdle
    /\ KillerIdle
    /\ AppQuiet(MaxOps)
    /\ CfgIdle
    /\ HashIdle
    /\ LogIdle

\* Logger::get_recent_logs
Logger_get_recent_logs(limit) ==
    /\ l_returned' = Read("get_recent_logs", "", limit, get_recent_logs(in_memory_logs, limit))
    /\ UNCHANGED <<matchVars, now, killerVars, appVars, cfgVars, hashVars, superseded>>
    /\ UNCHANGED <<pending, in_memory_logs, scan_events, act_history, log_history, auditVars>>

\* Logger::get_logs_by_type
Logger_get_logs_by_type(event_type, limit) ==
    /\ l_returned' = Read("get_logs_by_type", event_type, limit,
                          get_logs_by_type(in_memory_logs, event_type, limit))
    /\ UNCHANGED <<matchVars, now, killerVars, appVars, cfgVars, hashVars, superseded>>
    /\ UNCHANGED <<pending, in_memory_logs, scan_events, act_history, log_history, auditVars>>

NextQuery ==
    \/ \E enabled \in BOOLEAN, event \in LoggedEvents : Logger_log_event(enabled, event)
    \/ Logger_clear_logs
    \/ \E limit \in QueryLimits : Logger_get_recent_logs(limit)
    \/ \E event_type \in QueryTypes, limit \in QueryLimits : Logger_get_logs_by_type(event_type, limit)

SpecQuery == InitQuery /\ [][NextQuery]_vars

(***************************************************************************)
(* The executable hashes: ProcessScanner::calculate_file_hash              *)
(* (edr/scanner.rs), which keeps a cache, and compute_sha256_hex           *)
(* (main.rs), which matches_rule_hash calls for every hash rule.           *)
(***************************************************************************)
\* the contents an executable file can have
Contents == {"old", "new"}

\* format!("{:x}", Sha256 of the bytes): lower-case hex, one digest per content
sha256_hex(data) == IF data = "old" THEN <<"d">> ELSE <<"f">>

\* compute_sha256_hex on a file: None when it cannot be opened or read
compute_sha256_hex(file) ==
    IF file = None THEN None ELSE Some(sha256_hex(unwrap(file)))

\* the files start readable or not
InitHash ==
    /\ now = 0
    /\ MatchIdle
    /\ KillerIdle
    /\ AppQuiet(MaxOps)
    /\ CfgIdle
    /\ LogIdle
    /\ files \in [HashPaths -> {None} \cup {Some(c) : c \in Contents}]
    /\ hash_cache = EmptyMap
    /\ h_first = [f \in Hashers |-> [p \in HashPaths |-> None]]
    /\ h_last = [f \in Hashers |-> [p \in HashPaths |-> None]]
    /\ TreeIdle

\* the hash function f returns result for the path
HashReturned(f, path, result) ==
    /\ h_first' = IF h_first[f][path] = None
                  THEN [h_first EXCEPT ![f][path] = Some(result)]
                  ELSE h_first
    /\ h_last' = [h_last EXCEPT ![f][path] = Some(result)]

\* ProcessScanner::calculate_file_hash(file_path)
calculate_file_hash(file_path) ==
    /\ Happens
    /\ IF file_path \in DOMAIN hash_cache
       THEN /\ HashReturned("calculate_file_hash", file_path, Some(hash_cache[file_path]))
            /\ UNCHANGED hash_cache
       ELSE IF files[file_path] # None
       THEN LET hash == sha256_hex(unwrap(files[file_path]))
            IN /\ hash_cache' = insert(hash_cache, file_path, hash)
               /\ HashReturned("calculate_file_hash", file_path, Some(hash))
       ELSE /\ HashReturned("calculate_file_hash", file_path, None)
            /\ UNCHANGED hash_cache
    /\ UNCHANGED <<daemon_running, worker, worker_lock, policy, disk, is_admin,
                   detected_threats, killed_processes, scan_count, activities,
                   block_restart_until, os_alive, thr, estop_done>>
    /\ UNCHANGED <<matchVars, now, killerVars, cfgVars, files, treeVars, logVars, superseded>>

\* matches_rule_hash: compute_sha256_hex(path)
HashRuleEvaluated(path) ==
    /\ Happens
    /\ HashReturned("compute_sha256_hex", path, compute_sha256_hex(files[path]))
    /\ UNCHANGED <<daemon_running, worker, worker_lock, policy, disk, is_admin,
                   detected_threats, killed_processes, scan_count, activities,
                   block_restart_until, os_alive, thr, estop_done>>
    /\ UNCHANGED <<matchVars, now, killerVars, cfgVars, files, hash_cache, treeVars, logVars, superseded>>

\* the file at the path is replaced, made unreadable or made readable
FileChanged(path, file) ==
    /\ Happens
    /\ files[path] # file
    /\ files' = [files EXCEPT ![path] = file]
    /\ UNCHANGED <<daemon_running, worker, worker_lock, policy, disk, is_admin,
                   detected_threats, killed_processes, scan_count, activities,
                   block_restart_until, os_alive, thr, estop_done>>
    /\ UNCHANGED <<matchVars, now, killerVars, cfgVars, hash_cache, h_first, h_last,
                   treeVars, logVars, superseded>>

NextHash ==
    \E path \in HashPaths :
        \/ calculate_file_hash(path)
        \/ HashRuleEvaluated(path)
        \/ \E file \in {None} \cup {Some(c) : c \in Contents} : FileChanged(path, file)

SpecHash == InitHash /\ [][NextHash]_vars

(***************************************************************************)
(* ProcessTree of scanner.rs: build_tree and get_all_pids, over the        *)
(* process list of one scan.                                               *)
(***************************************************************************)
\* the most processes a scan returns here
MaxProcs == 3

\* the PIDs of the host
TreePids == 1..MaxProcs

\* the calls of build_tree the thread's stack holds: more than any tree of
\* MaxProcs processes is deep
StackFrames == MaxProcs + 2

\* ProcessInfo, by the fields build_tree reads
TreeProcess(pid, parent_pid) == [pid |-> pid, name |-> "process", parent_pid |-> parent_pid]

\* the ProcessInfo build_tree makes up for a root that is not in the list
UnknownProcess(root_pid) == [pid |-> root_pid, name |-> "Unknown", parent_pid |-> None]

\* what scan_processes can return: one entry per PID, each with no parent or
\* with the parent PID the system reports, in the order of the enumeration
ProcessLists ==
    UNION { UNION { { [i \in 1..n |-> TreeProcess(order[i], parents[i])] :
                        parents \in [1..n -> {None} \cup {Some(q) : q \in TreePids}] } :
                    order \in SeqsNoRep(TreePids, n) } :
            n \in 0..MaxProcs }

\* ProcessTree::build_tree(processes, root_pid), with frames calls left on the
\* stack: Some(tree), or None when the recursion exhausts the stack and the
\* process is aborted
RECURSIVE build_tree(_, _, _)
build_tree(processes, root_pid, frames) ==
    IF frames = 0 THEN None
    ELSE LET found == SelectSeq(processes, LAMBDA p : p.pid = root_pid)
             root == IF found # <<>> THEN found[1] ELSE UnknownProcess(root_pid)
             kids == SelectSeq(processes, LAMBDA p : p.parent_pid = Some(root_pid))
             children == [i \in 1..Len(kids) |->
                             build_tree(processes, kids[i].pid, frames - 1)]
         IN IF \E i \in 1..Len(kids) : children[i] = None
            THEN None
            ELSE Some([root |-> root,
                       children |-> [i \in 1..Len(kids) |-> unwrap(children[i])]])

\* ProcessTree::get_all_pids: the root's PID, then the PIDs of each child's
\* tree; extend_from(children, i) is the loop from the i-th child on
RECURSIVE get_all_pids(_), extend_from(_, _)
get_all_pids(tree) == <<tree.root.pid>> \o extend_from(tree.children, 1)

extend_from(children, i) ==
    IF i > Len(children) THEN <<>>
    ELSE get_all_pids(children[i]) \o extend_from(children, i + 1)

\* the scanner after scan_processes returned, before build_tree is called
InitTree ==
    /\ now = 0
    /\ superseded = {}
    /\ MatchIdle
    /\ KillerIdle
    /\ AppQuiet(MaxOps)
    /\ CfgIdle
    /\ LogIdle
    /\ files = [p \in HashPaths |-> None]
    /\ hash_cache = EmptyMap
    /\ h_first = [f \in Hashers |-> [p \in HashPaths |-> None]]
    /\ h_last = [f \in Hashers |-> [p \in HashPaths |-> None]]
    /\ tree_processes \in ProcessLists
    /\ tree_root_pid \in TreePids
    /\ tree_built = None
    /\ tree_pids = None

\* ProcessScanner::get_process_tree(root_pid), from the call of build_tree
ProcessScanner_get_process_tree ==
    /\ tree_built = None
    /\ tree_built' = Some(build_tree(tree_processes, tree_root_pid, StackFrames))
    /\ UNCHANGED <<tree_processes, tree_root_pid, tree_pids>>
    /\ UNCHANGED <<files, hash_cache, h_first, h_last>>
    /\ UNCHANGED <<matchVars, now, killerVars, appVars, cfgVars, logVars, superseded>>

\* ProcessTree::get_all_pids on the tree get_process_tree returned
ProcessTree_get_all_pids ==
    /\ tree_built # None
    /\ unwrap(tree_built) # None
    /\ tree_pids = None
    /\ tree_pids' = Some(get_all_pids(unwrap(unwrap(tree_built))))
    /\ UNCHANGED <<tree_processes, tree_root_pid, tree_built>>
    /\ UNCHANGED <<files, hash_cache, h_first, h_last>>
    /\ UNCHANGED <<matchVars, now, killerVars, appVars, cfgVars, logVars, superseded>>

NextTree == ProcessScanner_get_process_tree \/ ProcessTree_get_all_pids

SpecTree == InitTree /\ [][NextTree]_vars

(***************************************************************************)
(* The audit trail of push_activity: the event written through tracing to  *)
(* the log file, and the entry appended to the HMAC sidecar file.          *)
(***************************************************************************)
\* the keys rand::thread_rng().fill_bytes can produce at startup
Keys == {"k1", "k2"}

\* format!("{}|{}|{}|{}|{}\n", ...): the line of an activity, the PID
\* printed as 0 when there is none
hmac_line(act) ==
    <<act.timestamp, "|", act.event, "|", IF act.pid = None THEN 0 ELSE unwrap(act.pid), "\n">>

\* HMAC-SHA256 of the message under the key, taken to be free of collisions
hmac_sha256(key, message) == [key |-> key, message |-> message]

\* hex::encode
hex_encode(bytes) == <<"hex", bytes>>

\* format!("{} {}", hex::encode(tag), line): one entry of the sidecar file
sidecar_entry(key, line) == [tag |-> hex_encode(hmac_sha256(key, line)), line |-> line]

\* main: the key is generated and stored before the commands are served
InitAudit ==
    /\ now = 0
    /\ MatchIdle
    /\ KillerIdle
    /\ AppQuiet(MaxOps)
    /\ CfgIdle
    /\ HashIdle
    /\ pending = [t \in {} |-> 0]
    /\ in_memory_logs = <<>>
    /\ scan_events = <<>>
    /\ act_history = NoStores
    /\ log_history = <<>>
    /\ l_returned = None
    /\ hmac_key \in {Some(k) : k \in Keys}
    /\ audit_log = <<>>
    /\ sidecar = <<>>

\* push_activity(event, pid): the activity is stored, the event written to
\* the log file, and the tagged line appended to the sidecar file; appended
\* tells whether the open and the write_all succeeded (their error is dropped)
AuditedPush(event, pid, appended) ==
    /\ Happens
    /\ LET act == StampedActivity(event, pid, now)
           line == hmac_line(act)
       IN /\ activities' = store_activity(activities, act)
          /\ audit_log' = Append(audit_log, act)
          /\ sidecar' = IF hmac_key # None /\ appended
                        THEN Append(sidecar, sidecar_entry(unwrap(hmac_key), line))
                        ELSE sidecar
    /\ UNCHANGED <<daemon_running, worker, worker_lock, policy, disk, is_admin,
                   detected_threats, killed_processes, scan_count,
                   block_restart_until, os_alive, thr, estop_done>>
    /\ UNCHANGED <<matchVars, now, killerVars, cfgVars, hashVars, pending, in_memory_logs,
                   scan_events, act_history, log_history, l_returned, hmac_key, superseded>>

NextAudit ==
    \/ Tick
    \/ \E event \in {"DETECTED", "ERROR"}, pid \in {None, Some(2)}, appended \in BOOLEAN :
          AuditedPush(event, pid, appended)

SpecAudit == InitAudit /\ [][NextAudit]_vars

\* daemon control: any worker issues start_daemon, stop_daemon and
\* emergency_stop beside the scanner threads
NextCtl ==
    \/ Tick
    \/ \E t \in Scanners :
          \/ DaemonLoopTop(t)
          \/ AssignPolicy(t)
          \/ \E ok \in BOOLEAN : Snapshot(t, ok)
          \/ ScanRecord(t)
          \/ ScanEnds(t)
    \/ \E w \in Workers : ControlSteps(w)

SpecCtl == InitCtl /\ [][NextCtl]_vars

\* ---- stopping the daemon while it scans ----

\* the agent starts, not elevated, beside the other processes and with a
\* policy document whose deny rules match one of them
InitStop == InitWith({write_policy_to_disk(AppPolicy)}, {FALSE}, OtherPids)

\* the snapshot of a tick, succeeding MaxScans times at most
BoundedSnapshot(t, ok) ==
    /\ ok => scan_count < MaxScans
    /\ Snapshot(t, ok)

\* what a scanner thread does next
ScannerSteps(t) ==
    \/ DaemonLoopTop(t)
    \/ AssignPolicy(t)
    \/ \E ok \in BOOLEAN : BoundedSnapshot(t, ok)
    \/ ScanRecord(t)
    \/ ScanEnds(t)

\* what a worker does next in the command it has begun
CommandContinues(w) ==
    \/ StoreHandle(w)
    \/ TakeHandle(w)
    \/ JoinReturns(w)
    \/ EmergencyPush(w)

\* the workers issue start_daemon with interval 0 (the sleep returns at
\* once), stop_daemon and emergency_stop beside the scanner threads
NextStop ==
    \/ \E t \in Scanners : ScannerSteps(t)
    \/ \E w \in Workers :
          \/ \E d \in BOOLEAN : start_daemon(w, 0, d)
          \/ StoreFlag(w, "stop")
          \/ StoreFlag(w, "estop")
          \/ CommandContinues(w)

SpecStop == InitStop /\ [][NextStop]_vars

\* every thread that can take a step eventually takes one; no worker has to
\* begin a new command
StopFairness ==
    /\ \A t \in Scanners : WF_vars(ScannerSteps(t))
    /\ \A w \in Workers : WF_vars(CommandContinues(w))

SpecStopFair == SpecStop /\ StopFairness

\* ---- saving the policy while it is loaded ----

\* the worker that reads the policy while W1 saves it
W2 == <<"w", 2>>

\* policy.json once fs::write has created it anew (File::create truncates
\* it) and before write_all has put the whole document in it: no bytes, or
\* the first bytes of the document, which do not parse
truncated == Some(Document(FALSE, EmptyPolicy))

\* save_policy_config, write_policy_to_disk: fs::write opens the file,
\* truncating it
SavePolicyCreate(w, cfg) ==
    /\ Begins(w)
    /\ disk' = truncated
    /\ Set(w, [IdleCtx EXCEPT !.op = "save", !.pc = "write", !.cfg = Some(cfg)])
    /\ FileWritten
    /\ UNCHANGED <<daemon_running, worker, worker_lock, policy, is_admin,
                   detected_threats, killed_processes, scan_count, activities,
                   block_restart_until, os_alive, estop_done>>
    /\ UNCHANGED <<matchVars, now, killerVars, cfgVars, hashVars, logVars>>

\* save_policy_config, write_policy_to_disk: fs::write has written the
\* document
SavePolicyWriteAll(w) ==
    /\ thr[w].op = "save"
    /\ thr[w].pc = "write"
    /\ disk' = write_policy_to_disk(unwrap(thr[w].cfg))
    /\ Set(w, [thr[w] EXCEPT !.pc = "assign"])
    /\ FileWritten
    /\ UNCHANGED <<daemon_running, worker, worker_lock, policy, is_admin,
                   detected_threats, killed_processes, scan_count, activities,
                   block_restart_until, os_alive, ops_left, estop_done>>
    /\ UNCHANGED <<matchVars, now, killerVars, cfgVars, hashVars, logVars>>

\* get_policy_config: read_policy_from_disk
GetPolicyRead(w) ==
    /\ Begins(w)
    /\ Set(w, [IdleCtx EXCEPT !.op = "get", !.pc = "assign",
                              !.cfg = read_policy_from_disk(disk)])
    /\ UNCHANGED <<daemon_running, worker, worker_lock, policy, disk, is_admin,
                   detected_threats, killed_processes, scan_count, activities,
                   block_restart_until, os_alive, estop_done>>
    /\ UNCHANGED <<matchVars, now, killerVars, cfgVars, hashVars, logVars, superseded>>

\* get_policy_config: the document read is assigned to the policy and
\* returned; without one the policy is cloned and returned
GetPolicyReturns(w) ==
    /\ thr[w].op = "get"
    /\ thr[w].pc = "assign"
    /\ policy' = refreshed(thr[w].cfg, policy)
    /\ Return(w)
    /\ UNCHANGED <<daemon_running, worker, worker_lock, disk, is_admin,
                   detected_threats, killed_processes, scan_count, activities,
                   block_restart_until, os_alive, ops_left, estop_done>>
    /\ UNCHANGED <<matchVars, now, killerVars, cfgVars, hashVars, logVars, superseded>>

\* W1 saves policies, in the two steps of fs::write, while the scanner
\* thread ticks and W2 starts the daemon and gets the policy
NextSave ==
    \/ \E t \in Scanners : ScannerSteps(t)
    \/ \E d \in BOOLEAN : start_daemon(W2, 0, d)
    \/ StoreHandle(W2)
    \/ \E cfg \in Documents : SavePolicyCreate(W1, cfg)
    \/ SavePolicyWriteAll(W1)
    \/ SavePolicyAssign(W1)
    \/ GetPolicyRead(W2)
    \/ GetPolicyReturns(W2)

SpecSave == InitStop /\ [][NextSave]_vars

(***************************************************************************)
(* Properties of the matchers (SpecPolicy).                                *)
(***************************************************************************)
MatchDone == m_phase = "done"

\* the enabled rules of a list that match the drawn record, by the agent's
\* matcher (main.rs) and by the engine's (edr/policy.rs)
AppHits(list) == { i \in DOMAIN list : list[i].enabled # "false" /\ app_rule_hits(list[i], m_process) }
EngineHits(list) == { i \in DOMAIN list : matches_rule(list[i], m_process) }

Lowest(S) == CHOOSE i \in S : \A j \in S : i <= j

\* C2 -- Allow dominance: whenever an enabled allow rule matches the record,
\* the engine's verdict is Allow and the scan neither detects nor kills it
\* (its decision is "allowed"), whatever the deny list holds.
AllowDominance ==
    MatchDone =>
        /\ (\E i \in EngineHits(m_policy.whitelist) : m_policy.whitelist[i].enabled # "false")
              => (m_verdict # None /\ ~unwrap(m_verdict).is_blacklisted)
        /\ AppHits(m_policy.whitelist) # {} => m_decision = "allowed"

\* an allow rule and a deny rule both match, for the engine and for the scan
AllowDominanceWitness ==
    /\ MatchDone
    /\ AppHits(m_policy.whitelist) # {} /\ AppHits(m_policy.blacklist) # {}
    /\ EngineHits(m_policy.whitelist) # {} /\ EngineHits(m_policy.blacklist) # {}
    /\ m_decision = "allowed"
    /\ m_verdict # None

\* C5 -- Declaration order: evaluate returns the matching rule of lowest index,
\* of the allow list if it has one and else of the deny list, and returns None
\* exactly when no rule of either list matches.
DeclarationOrder ==
    MatchDone =>
        LET W == EngineHits(m_policy.whitelist)
            B == EngineHits(m_policy.blacklist)
        IN /\ (m_verdict = None) <=> (W = {} /\ B = {})
           /\ W # {} =>
                m_verdict = Some([rule |-> m_policy.whitelist[Lowest(W)], is_blacklisted |-> FALSE])
           /\ (W = {} /\ B # {}) =>
                m_verdict = Some([rule |-> m_policy.blacklist[Lowest(B)], is_blacklisted |-> TRUE])

\* two rules of the deny list match and the one declared first is returned
DeclarationOrderWitness ==
    /\ MatchDone
    /\ Cardinality(EngineHits(m_policy.blacklist)) >= 2
    /\ m_verdict # None
    /\ unwrap(m_verdict).is_blacklisted
    /\ unwrap(m_verdict).rule = m_policy.blacklist[1]

(***************************************************************************)
(* Properties of the kill governor (SpecKiller, SpecKillerReap).           *)
(***************************************************************************)
\* C3 -- Cooldown: two successive requests that reach a termination primitive
\* on a PID are at least cooldown_ms apart (from the end of the first to the
\* start of the second), and a request made sooner is answered InCooldown
\* and calls no termination primitive.
CooldownGap ==
    \A p \in KPids :
        k_history[p].last_gap # None => unwrap(k_history[p].last_gap) >= k_policy.cooldown_ms

\* a step that is a kill request for PID p: it reached a termination primitive,
\* or it changed what the last request returned
Requested(p) ==
    \/ k_history'[p] # k_history[p]
    \/ (k_last' # k_last /\ k_last' # None /\ unwrap(k_last').pid = p)

CooldownRefuses ==
    \A p \in KPids :
        (/\ k_history[p].last_end # None
         /\ now - unwrap(k_history[p].last_end) < k_policy.cooldown_ms
         /\ Requested(p))
        => /\ k_last' = Returned(p, "InCooldown")
           /\ k_history'[p] = k_history[p]
           /\ cooldown_tracker' = cooldown_tracker
           /\ retry_tracker' = retry_tracker

Cooldown == []CooldownGap /\ [][CooldownRefuses]_vars

\* a PID was attempted twice under a positive cooldown and a third request,
\* made too soon, was answered InCooldown
CooldownWitness ==
    \E p \in KPids :
        /\ k_policy.cooldown_ms > 0
        /\ k_history[p].last_gap # None
        /\ k_last = Returned(p, "InCooldown")

\* C4 as stated -- Retry bound: the requests that reach a termination
\* primitive on a PID number at most max_retry_attempts.
RetryBoundTotal ==
    \A p \in KPids : k_history[p].total <= k_policy.max_retry_attempts

\* C4 as amended -- the failed attempts on a PID since its kill state was last
\* created (at its first attempt, or its first after a cleanup reaped it) number
\* at most max_retry_attempts.
RetryBoundFailures ==
    \A p \in KPids : k_history[p].fails <= k_policy.max_retry_attempts

\* a PID used up its failures, was refused, and had been attempted more often
\* than max_retry_attempts in all
RetryBoundWitness ==
    \E p \in KPids :
        /\ k_history[p].fails = k_policy.max_retry_attempts
        /\ k_history[p].total > k_policy.max_retry_attempts
        /\ k_last = Returned(p, "MaxRetriesReached")


(***************************************************************************)
(* Properties of the desktop agent's scans (Spec).                         *)
(***************************************************************************)
Scanning(t) == thr[t].op \in {"scan", "daemon"}

\* the thread has walked past the agent's own record in its snapshot
PastSelf(t) ==
    /\ Scanning(t)
    /\ thr[t].pc \in {"loop", "kill"}
    /\ \A i \in 1..Len(thr[t].list) : thr[t].list[i] # SelfPid

AboutSelf(a) == a.pid = Some(SelfPid)

\* C1: self-immunity.  In every scan, single or daemon, the record of the
\* agent's own PID yields no DETECTED, KILL_SUCCESS or KILL_FAIL activity and
\* no call of win::kill_process, whatever the policy in force.
SelfImmunity ==
    /\ \A i \in 1..Len(activities) : ~AboutSelf(activities[i])
    /\ \A t \in Threads : Scanning(t) /\ thr[t].pc = "kill" => thr[t].cur # SelfPid

\* a scan under a policy whose deny rule matches the agent's own name has
\* walked past the agent's record and detected another process
SelfImmunityWitness ==
    \E t \in Threads :
        /\ PastSelf(t)
        /\ is_blacklisted(os_record(SelfPid), thr[t].pol)
        /\ ~is_whitelisted(os_record(SelfPid), thr[t].pol)
        /\ activities # <<>>
        /\ Head(activities).event = "DETECTED"

\* the step is taken by thread t
StepOf(t) == thr'[t] # thr[t]

\* the scanner's next record is deny-matching
AtDenied(t) ==
    /\ thr[t].pc = "loop"
    /\ thr[t].list # <<>>
    /\ classify_record(os_record(Head(thr[t].list)), thr[t].pol) = "denied"

NewActivities == SubSeq(activities', 1, Len(activities') - Len(activities))

DryRunScanner(t) == t \in Scanners /\ thr[t].dry_run

DryRunNeverKills == \A t \in Scanners : thr[t].dry_run => thr[t].pc # "kill"

DryRunStep ==
    \A t \in Scanners :
        DryRunScanner(t) /\ StepOf(t) =>
            /\ killed_processes' = killed_processes
            /\ os_alive' = os_alive
            /\ thr'[t].pc # "kill"
            /\ \A i \in 1..Len(NewActivities) : NewActivities[i].event = "DETECTED"
            /\ AtDenied(t) =>
                  /\ detected_threats' = detected_threats + 1
                  /\ NewActivities = <<Activity("DETECTED", Some(Head(thr[t].list)))>>

\* C6: dry run.  A scanner started with dry_run handles every deny-matching
\* record by counting it and pushing DETECTED, and none of its steps calls
\* win::kill_process, pushes a KILL_ activity, changes killed_processes or
\* ends a process.
DryRun == []DryRunNeverKills /\ [][DryRunStep]_vars

\* an elevated dry-run scanner has walked past a deny-matching record: it is
\* detected and nothing is killed
DryRunWitness ==
    \E t \in Scanners :
        /\ thr[t].dry_run
        /\ is_admin
        /\ thr[t].pc = "loop"
        /\ thr[t].list = <<3>>
        /\ classify_record(os_record(2), thr[t].pol) = "denied"
        /\ activities # <<>>
        /\ Head(activities) = Activity("DETECTED", Some(2))
        /\ killed_processes = 0
        /\ 2 \in os_alive

\* C7: no two calls of win::kill_process for the same PID are in progress at
\* the same time, by the scanner thread, a single scan or the kill_process
\* command.
NoConcurrentKills ==
    \A t, u \in Threads :
        t # u /\ thr[t].pc = "kill" /\ thr[u].pc = "kill" => thr[t].cur # thr[u].cur

\* C10: cooldown across ticks.  Two calls of win::kill_process a scanner makes
\* for the same PID, one after the other, are at least the cooldown apart.
CooldownAcrossTicks ==
    \A t \in Scanners : thr[t].gap # None => unwrap(thr[t].gap) >= DefaultCooldown

(***************************************************************************)
(* Properties of daemon control (SpecCtl).                                 *)
(***************************************************************************)
Alive(t) == thr[t].pc \notin {"unborn", "exited"}

\* C8: at most one scanner thread is alive at any time, under any
\* interleaving of start_daemon, stop_daemon and emergency_stop.
OneScanner == Cardinality({ t \in Scanners : Alive(t) }) <= 1

\* C9: once emergency_stop has returned, start_daemon starts no scanner
\* thread.
EmergencyStopLatches == \A t \in Scanners : ~thr[t].late

(***************************************************************************)
(* Further properties of the matchers (SpecPolicy) and of the governor     *)
(* (SpecKiller).                                                           *)
(***************************************************************************)
Unparsable(r) == r.rule_type = "command" /\ ~regex_parses(r.value)

\* the list without its Command rules of unparsable pattern
parsable_rules(list) == SelectSeq(list, LAMBDA r : ~Unparsable(r))

\* C14: a Command rule whose pattern is no regular expression matches no
\* record: the verdict is the one the policy gives with such rules removed.
InvalidPatternMatchesNothing ==
    MatchDone =>
        m_verdict = evaluate(parsable_rules(m_policy.whitelist),
                             parsable_rules(m_policy.blacklist), m_process)

\* C16: the governor rejects a request for the agent's own PID at once: no
\* termination primitive is ever called for it.
GovernorRejectsSelf == k_history[SelfPid].total = 0

(***************************************************************************)
(* Properties of the configuration document (SpecValidate).                *)
(***************************************************************************)
\* C20: the validate command reports an error for a document whose two rule
\* lists are empty.
EmptyDocumentInvalid ==
    /\ c_phase = "validated"
    /\ c_input.config.blacklist = <<>>
    /\ c_input.config.whitelist = <<>>
    => c_result = "NoRules"

(***************************************************************************)
(* Further properties of the desktop agent's scans (Spec).                 *)
(***************************************************************************)
\* the name is one Config::load protects: the agent's executable name or a
\* critical system process name
built_in_name(name) ==
    \/ eq_ignore_ascii_case(name, exe_name)
    \/ \E i \in DOMAIN system_processes : eq_ignore_ascii_case(name, system_processes[i])

\* C15: a process whose name is a built-in allow name is never handed to
\* win::kill_process by a scan, whatever the policy document holds.
BuiltInsProtected ==
    \A t \in Threads :
        Scanning(t) /\ thr[t].pc = "kill" => ~built_in_name(os_record(thr[t].cur).name)

RestrictedStep ==
    \A t \in Threads :
        Scanning(t) /\ StepOf(t) /\ AtDenied(t) /\ ~thr[t].dry_run /\ ~is_admin =>
            LET p == Head(thr[t].list)
            IN /\ NewActivities = <<Activity("KILL_FAIL", Some(p)), Activity("DETECTED", Some(p))>>
               /\ detected_threats' = detected_threats + 1
               /\ killed_processes' = killed_processes
               /\ os_alive' = os_alive
               /\ thr'[t].pc = "loop"
               /\ thr'[t].list = Tail(thr[t].list)

RestrictedNeverKills == ~is_admin => \A t \in Threads : Scanning(t) => thr[t].pc # "kill"

\* C17: restricted mode.  When the agent is not elevated, a scan outside
\* dry-run handles a deny-matching record by pushing DETECTED and then
\* KILL_FAIL for its PID, calls win::kill_process for nothing, leaves
\* killed_processes alone and goes on with the next record.
RestrictedMode == []RestrictedNeverKills /\ [][RestrictedStep]_vars

\* a scan of the agent, not elevated, has walked past the deny-matching PID 2:
\* KILL_FAIL is the newest activity, DETECTED the one before, nothing is killed
RestrictedModeWitness ==
    /\ ~is_admin
    /\ \E t \in Threads :
          /\ Scanning(t) /\ ~thr[t].dry_run
          /\ thr[t].pc = "loop"
          /\ thr[t].list = <<3>>
    /\ Len(activities) >= 2
    /\ activities[1] = Activity("KILL_FAIL", Some(2))
    /\ activities[2] = Activity("DETECTED", Some(2))
    /\ killed_processes = 0
    /\ 2 \in os_alive

(***************************************************************************)
(* Properties of the policy store and the restart block (SpecStore).       *)
(***************************************************************************)
\* the executable path has an unexpired entry in the restart-block map
restart_blocked(path) ==
    /\ path # None
    /\ unwrap(path) \in DOMAIN block_restart_until
    /\ now < block_restart_until[unwrap(path)]

\* C11: restart blocking.  A record the scanner evaluates whose executable
\* path has an unexpired entry in block_restart_until is detected like a
\* deny match (unless it is the agent or allow-listed), also when no deny
\* rule matches it.
RestartBlocking ==
    [][\A t \in Scanners :
          /\ StepOf(t)
          /\ thr[t].pc = "loop"
          /\ thr[t].list # <<>>
          /\ classify_record(os_record(Head(thr[t].list)), thr[t].pol) \notin {"self", "allowed"}
          /\ restart_blocked(os_record(Head(thr[t].list)).path)
          => detected_threats' = detected_threats + 1]_vars

\* C18: hot reload.  A tick of the scanner that starts after policy.json
\* was replaced evaluates its snapshot with the document it read at its
\* start, unless the file was written again before the tick cloned the policy.
HotReload ==
    \A t \in Scanners :
        thr[t].pc \in {"loop", "kill"} /\ thr[t].cfg # None /\ t \notin superseded
            => thr[t].pol = unwrap(thr[t].cfg)

LastKnownGoodStep ==
    \A t \in Scanners :
        /\ (StepOf(t) /\ thr[t].pc \in {"check", "sleep"} /\ daemon_running
                      /\ read_policy_from_disk(disk) = None)
              => thr'[t].pc = "assign" /\ thr'[t].cfg = None /\ policy' = policy
        /\ (StepOf(t) /\ thr[t].pc = "assign" /\ thr[t].cfg = None)
              => thr'[t].pc = "clone" /\ policy' = policy
        /\ (StepOf(t) /\ thr[t].pc = "clone" /\ thr'[t].pc = "loop")
              => thr'[t].pol = policy

\* C19: last known good.  When policy.json is missing or does not parse at a
\* tick, the scanner leaves the in-memory policy as it is, and the tick goes
\* on to evaluate its snapshot with it.
LastKnownGood == [][LastKnownGoodStep]_vars

\* a tick that found no readable document is evaluating its snapshot with the
\* policy loaded earlier
LastKnownGoodWitness ==
    \E t \in Scanners :
        /\ thr[t].pc = "loop"
        /\ thr[t].cfg = None
        /\ read_policy_from_disk(disk) = None
        /\ thr[t].pol = AppPolicy
        /\ policy = AppPolicy
        /\ Len(thr[t].list) < 3

(***************************************************************************)
(* Properties of the in-memory logs (SpecLog).                             *)
(***************************************************************************)
\* C12: event monotonicity.  Of two successive entries of the activity
\* buffer, the one appended later (nearer the front) has a timestamp at
\* least that of the other.
EventMonotonicity ==
    \A i \in 1..(Len(activities) - 1) :
        activities[i].timestamp >= activities[i + 1].timestamp

\* C13: ring-buffer bound.  The in-memory logs never hold more than 10,000
\* entries.
RingBufferBound ==
    /\ Len(activities) <= ActivityCap
    /\ Len(in_memory_logs) <= ActivityCap

\* an activity was pushed on the full buffer, and an event logged on the full
\* Logger buffer: both are at their caps, the new entries at their ends
RingBufferBoundWitness ==
    /\ Len(activities) = ActivityCap
    /\ Head(activities).event = "ERROR"
    /\ Len(in_memory_logs) = max_memory_logs
    /\ in_memory_logs[max_memory_logs].event_type = "SystemEvent"

(***************************************************************************)
(* Properties of a scan tick (Spec).                                       *)
(***************************************************************************)
NewScanEvents == SubSeq(scan_events', Len(scan_events) + 1, Len(scan_events'))

\* the thread's next step ends its tick: the snapshot is walked
TickEnds(t) == Scanning(t) /\ thr[t].pc = "loop" /\ thr[t].list = <<>>

ScanEventOrderStep ==
    \A t \in Threads :
        Scanning(t) /\ StepOf(t) =>
            /\ (thr[t].pc = "clone" /\ thr'[t].pc = "loop")
                  => NewScanEvents = <<"SCAN_START">> /\ activities' = activities
            /\ (thr[t].pc \in {"loop", "kill"} /\ ~TickEnds(t))
                  => NewScanEvents = <<>>
            /\ TickEnds(t)
                  => NewScanEvents = <<"SCAN_COMPLETE">> /\ activities' = activities

\* C21: event order within a tick.  The step that takes the snapshot records
\* the tick's start and nothing else, the steps that handle the records
\* record only per-process events, and the step that ends a tick that was
\* not aborted records exactly one completion event, after all of them.
ScanEventOrder == [][ScanEventOrderStep]_vars

(***************************************************************************)
(* Properties of stopping the daemon (SpecStop, SpecStopFair).             *)
(***************************************************************************)
Stopping(w) == thr[w].op \in {"stop", "estop"}

\* the scanner thread is the one a stop command is joining
Joined(t) == \E w \in Workers : Stopping(w) /\ thr[w].pc = "join" /\ thr[w].handle = Some(t)

\* C22: no control operation blocks for ever.  Every stop_daemon and
\* emergency_stop that was called eventually returns, and the scanner thread
\* it joins eventually exits, whatever start_daemon calls run beside it.
StopReturns ==
    /\ \A w \in Workers : Stopping(w) ~> ~Stopping(w)
    /\ \A t \in Scanners : Joined(t) ~> thr[t].pc = "exited"

\* C23: cancellation.  Once stop_daemon has cleared the flag, the running
\* tick handles at most the record it is at: a scanner thread goes on to no
\* second record of its snapshot with the flag clear.
Cancellation == \A t \in Scanners : thr[t].overrun <= 1

(***************************************************************************)
(* Properties of the executable hashes (SpecHash).                         *)
(***************************************************************************)
\* C24: idempotent hash cache.  For every path, each hash function returns
\* at every call what it returned at its first call for that path, whether
\* the file has changed or become unreadable since.
IdempotentHash ==
    \A f \in Hashers, p \in HashPaths :
        h_first[f][p] # None => h_last[f][p] = h_first[f][p]

(***************************************************************************)
(* Properties of the scanner thread under errors (Spec).                   *)
(***************************************************************************)
TransientErrorStep ==
    \A t \in Scanners :
        StepOf(t) =>
            \* the snapshot call fails: no event, no counter, sleep interval
            /\ (thr[t].pc = "clone" /\ thr'[t].pc # "loop")
                  => /\ thr'[t].pc = "sleep"
                     /\ thr'[t].wake_at = now + thr[t].interval
                     /\ activities' = activities
                     /\ scan_events' = scan_events
                     /\ scan_count' = scan_count
                     /\ detected_threats' = detected_threats
                     /\ killed_processes' = killed_processes
            \* the sleep over, the thread tries again unless it was stopped
            /\ thr[t].pc = "sleep"
                  => /\ now >= thr[t].wake_at
                     /\ thr'[t].pc = IF daemon_running THEN "assign" ELSE "exited"
            \* a kill fails: KILL_FAIL, and the records left are still to come
            /\ (thr[t].pc = "kill" /\ killed_processes' = killed_processes)
                  => /\ thr'[t].pc = "loop"
                     /\ thr'[t].list = thr[t].list
                     /\ NewActivities = <<Activity("KILL_FAIL", Some(thr[t].cur))>>
            \* each record left is handled
            /\ (thr[t].pc = "loop" /\ thr[t].list # <<>>)
                  => /\ thr'[t].pc \in {"loop", "kill"}
                     /\ thr'[t].list = Tail(thr[t].list)
            \* the thread exits only at its loop top, on finding the flag clear
            /\ thr'[t].pc = "exited"
                  => ~daemon_running /\ thr[t].pc \in {"check", "sleep"}

\* C25: the daemon survives transient errors.  A failed snapshot abandons
\* the tick without events, and the scanner thread sleeps interval and tries
\* again; a failed kill leaves the remaining records of the tick to be
\* handled; the thread exits only when it finds daemon_running clear.
TransientErrors == [][TransientErrorStep]_vars

\* the scanner thread's snapshots have all failed so far: it is asleep until
\* its next try, nothing was counted or recorded, and the daemon is running
TransientErrorsWitness ==
    \E t \in Scanners :
        /\ thr[t].pc = "sleep"
        /\ thr[t].wake_at = now + thr[t].interval
        /\ daemon_running
        /\ scan_count = 0
        /\ activities = <<>>
        /\ thr[W1].pc = "idle"
        /\ ops_left = MaxOps - 1

(***************************************************************************)
(* Properties of the audit trail (SpecAudit).                              *)
(***************************************************************************)
\* the tag of the entry is the HMAC of the line stored with it
Verifies(key, entry) == entry.tag = hex_encode(hmac_sha256(key, entry.line))

\* C26: HMAC chain.  Every event written to the log file has an entry in
\* the sidecar file, and the tag of every entry is the HMAC-SHA256, under
\* the key generated at startup, of the line stored with it.
HmacChain ==
    /\ \A i \in DOMAIN audit_log :
          \E j \in DOMAIN sidecar : sidecar[j].line = hmac_line(audit_log[i])
    /\ \A j \in DOMAIN sidecar : Verifies(unwrap(hmac_key), sidecar[j])

(***************************************************************************)
(* Properties of saving the policy (SpecSave).                             *)
(***************************************************************************)
\* the thread has called read_policy_from_disk and holds what it returned
Loaded(t) == thr[t].op \in {"scan", "daemon", "get"} /\ thr[t].pc = "assign"

\* C27: atomic save.  policy.json holds a complete document from the start
\* and is only ever changed by save_policy_config, so every load, by a tick
\* or by get_policy_config, returns a complete document, the one before a
\* save or the one saved; and the policy in memory and the policy a tick
\* uses are always documents that were saved whole.
AtomicSave ==
    /\ \A t \in Threads : Loaded(t) => thr[t].cfg \in {Some(d) : d \in Documents}
    /\ policy \in Documents
    /\ \A t \in Scanners : thr[t].pol \in Documents

(***************************************************************************)
(* Disabled rules (SpecPolicy).                                            *)
(***************************************************************************)
\* the rules of a list whose enabled flag is not false
EnabledRules(list) == { i \in DOMAIN list : list[i].enabled # "false" }

\* the rules of a list that match the drawn record when the enabled flag is
\* left out of account, by the agent's matcher
AppMatches(list) ==
    { i \in DOMAIN list : app_rule_hits([list[i] EXCEPT !.enabled = "none"], m_process) }

\* the agent's scan skips disabled rules, and takes a rule with no enabled
\* field as enabled
AppSkipsDisabled ==
    MatchDone =>
        LET W == AppMatches(m_policy.whitelist) \cap EnabledRules(m_policy.whitelist)
            B == AppMatches(m_policy.blacklist) \cap EnabledRules(m_policy.blacklist)
        IN /\ m_decision = "allowed" <=> W # {}
           /\ m_decision = "denied" <=> (W = {} /\ B # {})

\* the engine's verdict rests on an enabled rule
EngineSkipsDisabled ==
    MatchDone =>
        LET W == EngineHits(m_policy.whitelist) \cap EnabledRules(m_policy.whitelist)
            B == EngineHits(m_policy.blacklist) \cap EnabledRules(m_policy.blacklist)
        IN /\ (m_verdict # None /\ ~unwrap(m_verdict).is_blacklisted) => W # {}
           /\ (m_verdict # None /\ unwrap(m_verdict).is_blacklisted) => B # {}

\* C28 -- Disabled rules are skipped: a rule with enabled = false contributes
\* to no verdict, of the agent's scan or of the engine, in either list (a
\* record matched only by disabled allow rules is not allowed, one matched only
\* by disabled deny rules is not denied), and a rule with no enabled field
\* counts as enabled.
DisabledRulesSkipped == AppSkipsDisabled /\ EngineSkipsDisabled

(***************************************************************************)
(* The two termination steps and the throttled request (SpecKiller).       *)
(***************************************************************************)
\* C29 -- Graceful-then-forceful: with graceful_kill enabled, a request
\* returns Ok only after the target's exit was confirmed following a
\* successful graceful request, or after a forceful termination succeeded; and
\* when the graceful step fails, forceful termination is attempted within the
\* same request.
GracefulThenForceful ==
    k_policy.graceful_kill =>
        /\ \A p \in KPids :
              k_last = Returned(p, "Ok") =>
                  \/ k_calls.forceful = "Ok"
                  \/ k_calls.graceful = "Ok" /\ k_calls.exited
        /\ k_calls.graceful = "Err" => k_calls.forceful # "none"

\* the second half of C29 alone
ForcefulFollowsGraceful ==
    (k_policy.graceful_kill /\ k_calls.graceful = "Err") => k_calls.forceful # "none"

\* a step of a request for p
RequestStep(p) == k_last' # k_last /\ k_last' # None /\ unwrap(k_last').pid = p

CoolingDown(p) ==
    p \in DOMAIN cooldown_tracker /\ now - cooldown_tracker[p] < k_policy.cooldown_ms

OutOfRetries(p) ==
    p \in DOMAIN retry_tracker /\ retry_tracker[p] >= k_policy.max_retry_attempts

ThrottledStep ==
    \A p \in KPids :
        RequestStep(p) =>
            /\ unwrap(k_last').result \in {"InCooldown", "MaxRetriesReached"} =>
                  /\ k_calls' = NoCalls
                  /\ cooldown_tracker' = cooldown_tracker
                  /\ retry_tracker' = retry_tracker
            /\ CoolingDown(p) => unwrap(k_last').result = "InCooldown"
            /\ unwrap(k_last').result = "MaxRetriesReached" => ~CoolingDown(p) /\ OutOfRetries(p)

\* C30 -- A request rejected by throttling has no effect: when kill_process
\* returns InCooldown or MaxRetriesReached, no termination primitive was called
\* and the cooldown and retry maps are as before the call; and the cooldown
\* test is made before the retry test, so a request for a PID that is both
\* cooling down and out of retries returns InCooldown.
ThrottledNoEffect == [][ThrottledStep]_vars

\* a request for a PID that is cooling down and out of retries was rejected
\* with InCooldown, and called nothing
ThrottledNoEffectWitness ==
    \E p \in KPids :
        /\ k_last = Returned(p, "InCooldown")
        /\ CoolingDown(p) /\ OutOfRetries(p)
        /\ k_calls = NoCalls

(***************************************************************************)
(* The outcome of an attempt (SpecKiller).                                 *)
(***************************************************************************)
\* a step of a request for p that called a termination primitive
AttemptStep(p) == k_history'[p].total = k_history[p].total + 1

\* the kill state of q is what it was
KillStateKept(q) ==
    /\ q \in DOMAIN cooldown_tracker' <=> q \in DOMAIN cooldown_tracker
    /\ q \in DOMAIN cooldown_tracker => cooldown_tracker'[q] = cooldown_tracker[q]
    /\ q \in DOMAIN retry_tracker' <=> q \in DOMAIN retry_tracker
    /\ q \in DOMAIN retry_tracker => retry_tracker'[q] = retry_tracker[q]

FailureStep ==
    \A p \in KPids :
        AttemptStep(p) =>
            /\ \A q \in KPids \ {p} : KillStateKept(q)
            /\ IF unwrap(k_last').result = "Ok"
               THEN retry_tracker' = retry_tracker
               ELSE /\ k_calls'.forceful \in ForceResults \ {"Ok"}
                    /\ unwrap(k_last').result = k_calls'.forceful
                    /\ p \in DOMAIN retry_tracker'
                    /\ retry_tracker'[p] =
                          (IF p \in DOMAIN retry_tracker THEN retry_tracker[p] ELSE 0) + 1
                    /\ p \in DOMAIN cooldown_tracker'
                    /\ cooldown_tracker'[p] = now'

\* C31 -- When forceful termination fails, kill_process increases that PID's
\* attempt count by exactly one, records the attempt time, returns the
\* underlying error and leaves every other PID's kill state unchanged; a
\* successful kill leaves the attempt count of the PID unchanged.
KillFailure == [][FailureStep]_vars

\* the second failed attempt on a PID, made while another PID has kill state
\* of its own
KillFailureWitness ==
    \E p \in KPids, q \in KPids :
        /\ p # q
        /\ k_last = Returned(p, "InvalidHandle")
        /\ p \in DOMAIN retry_tracker /\ retry_tracker[p] = 2
        /\ q \in DOMAIN retry_tracker /\ q \in DOMAIN cooldown_tracker

\* the request before this state was for p, called a termination primitive and
\* returned at the present time
JustAttempted(p) ==
    /\ k_last # None /\ unwrap(k_last).pid = p
    /\ unwrap(k_last).result \notin {"InCooldown", "MaxRetriesReached"}
    /\ k_history[p].last_end = Some(now)

LastAttemptStep ==
    \A p \in KPids :
        /\ AttemptStep(p) => (p \in DOMAIN cooldown_tracker' /\ cooldown_tracker'[p] = now')
        /\ (JustAttempted(p) /\ k_policy.cooldown_ms > 0 /\ (RequestStep(p) \/ AttemptStep(p)))
              => (k_last' = Returned(p, "InCooldown") /\ ~AttemptStep(p))

\* C32 -- After any outcome of an attempt, success or failure, the last-attempt
\* time of the PID is the time the request returned, so that with
\* cooldown_ms > 0 a request for the same PID made immediately afterwards
\* returns InCooldown.
LastAttemptUpdated == [][LastAttemptStep]_vars

\* a request rejected with InCooldown at the very time the attempt before it
\* on the same PID, a failed one, returned
LastAttemptUpdatedWitness ==
    \E p \in KPids :
        /\ k_last = Returned(p, "InCooldown")
        /\ k_history[p].last_end = Some(now)
        /\ k_history[p].fails = k_history[p].total
        /\ k_policy.cooldown_ms > 0

(***************************************************************************)
(* Reaping (SpecKillerReap).                                               *)
(***************************************************************************)
\* a step of cleanup_old_entries: no request returns and no time passes
CleanupStep == k_last' = None /\ now' = now

ReapingStep ==
    CleanupStep =>
        /\ DOMAIN cooldown_tracker' \subseteq DOMAIN cooldown_tracker
        /\ \A p \in DOMAIN cooldown_tracker' : now - cooldown_tracker'[p] < CleanupTimeout
        /\ \A p \in DOMAIN cooldown_tracker :
              now - cooldown_tracker[p] < CleanupTimeout =>
                  (p \in DOMAIN cooldown_tracker' /\ cooldown_tracker'[p] = cooldown_tracker[p])
        /\ DOMAIN retry_tracker' = DOMAIN retry_tracker \cap DOMAIN cooldown_tracker'
        /\ \A p \in DOMAIN retry_tracker' : retry_tracker'[p] = retry_tracker[p]

\* C33 -- Reaping: after cleanup_old_entries no kill-state entry whose last
\* attempt is 5 minutes old or older remains, every younger cooldown entry is
\* kept with its timestamp unchanged, and a retry count survives exactly for
\* the PIDs that still have a cooldown entry.
Reaping == [][ReapingStep]_vars

\* after a cleanup: one PID that was attempted has no kill state left, another
\* keeps its cooldown entry and its retry count
ReapingWitness ==
    \E p \in KPids, q \in KPids :
        /\ k_last = None
        /\ k_history[p].total > 0
        /\ p \notin DOMAIN cooldown_tracker /\ p \notin DOMAIN retry_tracker
        /\ q \in DOMAIN cooldown_tracker /\ q \in DOMAIN retry_tracker

\* C35 -- In every reachable state of the governor, after any sequence of
\* kill_process and cleanup_old_entries calls, every PID that has a retry
\* count also has a cooldown entry, and every stored retry count is at least 1
\* and at most max_retry_attempts.
RetryCounts ==
    \A p \in DOMAIN retry_tracker :
        /\ p \in DOMAIN cooldown_tracker
        /\ retry_tracker[p] >= 1
        /\ retry_tracker[p] <= k_policy.max_retry_attempts

\* a PID holds the largest retry count its policy allows, after a cleanup
\* that reaped the other PID
RetryCountsWitness ==
    \E p \in KPids, q \in KPids :
        /\ k_last = None
        /\ p \in DOMAIN retry_tracker
        /\ retry_tracker[p] = 2 /\ k_policy.max_retry_attempts = 2
        /\ k_history[q].total > 0 /\ q \notin DOMAIN cooldown_tracker

(***************************************************************************)
(* The restart-block map (Spec).                                           *)
(***************************************************************************)
\* win::kill_process returns Ok(true) to the scan of thread t
KillSucceeds(t) ==
    /\ Scanning(t) /\ StepOf(t)
    /\ thr[t].pc = "kill"
    /\ killed_processes' = killed_processes + 1

\* the successful kill of thread t enters the path of the killed process
BlocksRestart(t) ==
    LET path == os_record(thr[t].cur).path
    IN path # None =>
          /\ unwrap(path) \in DOMAIN block_restart_until'
          /\ block_restart_until'[unwrap(path)] = now + RestartBlock

\* the restart-block map changes with a successful kill only
OnlyKillsBlock ==
    block_restart_until' # block_restart_until => \E t \in Threads : KillSucceeds(t)

\* the daemon's half of C34
DaemonBlocksRestart ==
    [][(\A t \in Scanners : KillSucceeds(t) => BlocksRestart(t)) /\ OnlyKillsBlock]_vars

\* C34 -- After every successful kill of a process with a known executable
\* path, in a single scan as well as in a daemon tick, the restart-block map
\* holds that path with an expiry 5 seconds after the kill; failed kills,
\* dry-run detections and restricted-mode detections add no entry.
RestartBlocked ==
    [][(\A t \in Threads : KillSucceeds(t) => BlocksRestart(t)) /\ OnlyKillsBlock]_vars

(***************************************************************************)
(* The buffers and their readers (SpecLog).                                *)
(***************************************************************************)
\* the last min(Len(h), cap) entries of h, in the order of h
MostRecent(h, cap) ==
    SubSeq(h, Len(h) - (IF Len(h) < cap THEN Len(h) ELSE cap) + 1, Len(h))

Reversed(s) == [i \in 1..Len(s) |-> s[Len(s) + 1 - i]]

\* every entry stored in activities, in the order of the stores
StoredActivities == Filled(act_history.filled, AgedActivity) \o act_history.pushed

\* C36 -- Oldest dropped on overflow: after any sequence of appends each
\* buffer holds exactly the most recent min(n, capacity) of the n entries
\* appended to it, in the order they were appended (activities newest first,
\* in_memory_logs oldest first), so that the entries one thread appended are
\* in that thread's program order.
OldestDropped ==
    /\ activities = Reversed(MostRecent(StoredActivities, ActivityCap))
    /\ in_memory_logs = MostRecent(log_history, max_memory_logs)

\* both buffers have overflowed, activities by two entries that differ
OldestDroppedWitness ==
    /\ act_history.filled + Len(act_history.pushed) >= ActivityCap + 2
    /\ Len(log_history) > max_memory_logs
    /\ activities[1] # activities[2]

\* a read of the Logger's buffer returns
ReadStep == l_returned' # l_returned /\ l_returned' # None

\* out is made of entries of logs taken from the newest towards the oldest
NewestFirst(out, logs) ==
    \E f \in [1..Len(out) -> 1..Len(logs)] :
        /\ \A i \in 1..Len(out) : out[i] = logs[f[i]]
        /\ \A i \in 1..Len(out), j \in 1..Len(out) : i < j => f[i] > f[j]

ReadersStep ==
    ReadStep =>
        LET r == unwrap(l_returned')
            n == Len(in_memory_logs)
            out == r.logs
        IN /\ in_memory_logs' = in_memory_logs
           /\ r.call = "get_recent_logs" =>
                 /\ Len(out) = (IF r.limit < n THEN r.limit ELSE n)
                 /\ \A i \in 1..Len(out) : out[i] = in_memory_logs[n - Len(out) + i]
           /\ r.call = "get_logs_by_type" =>
                 /\ Len(out) <= r.limit
                 /\ \A i \in 1..Len(out) : matches_event_type(out[i], r.event_type)
                 /\ NewestFirst(out, in_memory_logs)

\* C37 -- get_recent_logs(limit) returns the last min(limit, size) events of
\* the in-memory buffer in append order (oldest first), so an empty sequence
\* for limit 0 or after clear_logs, and does not change the buffer;
\* get_logs_by_type(kind, limit) returns at most limit events, all of the
\* requested kind, newest first.
Readers == [][ReadersStep]_vars

\* get_logs_by_type has returned two of the three events of the buffer, which
\* differ, the newer one first
ReadersWitness ==
    /\ l_returned # None
    /\ unwrap(l_returned).call = "get_logs_by_type"
    /\ Len(in_memory_logs) = 3
    /\ Len(unwrap(l_returned).logs) = 2
    /\ unwrap(l_returned).logs[1].timestamp > unwrap(l_returned).logs[2].timestamp
    /\ in_memory_logs[1].event_type # in_memory_logs[2].event_type

(***************************************************************************)
(* Built-in allow rules (SpecBuiltIn).                                     *)
(***************************************************************************)
\* the rules of list that match the drawn record
Matching(list) == { i \in DOMAIN list : matches_rule(list[i], m_process) }

\* the record is matched by a built-in allow rule and by an allow rule of the
\* document
BothAllow ==
    /\ Matching(built_in_rules(c_input.exe_ok, c_input.windows)) # {}
    /\ Matching(c_input.config.whitelist) # {}

\* the verdict on such a record is Allow
BuiltInAllows ==
    (MatchDone /\ BothAllow) => (m_verdict # None /\ ~unwrap(m_verdict).is_blacklisted)

\* C38 -- Built-in allow rules are walked first: for a record matched both by
\* a built-in allow rule and by a user allow rule, the verdict is Allow and
\* carries the id of the built-in rule, not of the user rule.
BuiltInFirst ==
    (MatchDone /\ BothAllow) =>
        /\ m_verdict # None
        /\ ~unwrap(m_verdict).is_blacklisted
        /\ LET builtin == built_in_rules(c_input.exe_ok, c_input.windows)
           IN \E i \in Matching(builtin) : unwrap(m_verdict).rule.id = builtin[i].id

\* ---- C39: the counters and the order of the activity log ----

\* the entries of the activities vector for process p with one of the events,
\* at position from or older (the vector is newest first)
Older(from, events, p) ==
    {j \in from..Len(activities) :
        activities[j].event \in events /\ activities[j].pid = Some(p)}

\* each KILL_SUCCESS or KILL_FAIL entry of a process has a DETECTED entry of
\* its own behind it in the log
Matched ==
    \A p \in OtherPids : \A i \in Older(1, {"KILL_SUCCESS", "KILL_FAIL"}, p) :
        Cardinality(Older(i, {"KILL_SUCCESS", "KILL_FAIL"}, p))
            <= Cardinality(Older(i + 1, {"DETECTED"}, p))

\* neither counter decreases in a step
CountersGrow ==
    /\ detected_threats' >= detected_threats
    /\ killed_processes' >= killed_processes

\* C39 as stated: under any interleaving of single scans and the daemon thread
\* the killed-process counter never exceeds the detected-threat counter, both
\* counters never decrease, and each KILL_SUCCESS or KILL_FAIL activity of a
\* PID is preceded in the activity log by a DETECTED activity of that PID
TallyAlways ==
    /\ [](killed_processes <= detected_threats /\ Matched)
    /\ [][CountersGrow]_vars

\* C39 (amended): the counters are as stated in every state, and the log is as
\* stated while it holds fewer than its 10000 entries; at the capacity the
\* DETECTED entry is dropped before the kill entry that follows it
Tally ==
    /\ [](/\ killed_processes <= detected_threats
          /\ Len(activities) < ActivityCap => Matched)
    /\ [][CountersGrow]_vars

\* a single scan and the scanner thread have both recorded a kill of the
\* same process
TallyWitness ==
    /\ killed_processes >= 1
    /\ Len(activities) < ActivityCap
    /\ \E p \in OtherPids :
          Cardinality(Older(1, {"KILL_SUCCESS", "KILL_FAIL"}, p)) >= 2

\* ---- C40: build_tree over parent links that loop ----

\* the PIDs of S and of the processes whose parent links lead into S in at
\* most n steps
RECURSIVE Descendants(_, _)
Descendants(S, n) ==
    IF n = 0 THEN S
    ELSE Descendants(S \cup {tree_processes[i].pid : i \in
                              {j \in DOMAIN tree_processes :
                                  \E q \in S : tree_processes[j].parent_pid = Some(q)}},
                     n - 1)

\* the processes reachable from the root through parent links
FromRoot == Descendants({tree_root_pid}, MaxProcs)

\* the parent links of a process reachable from the root lead back to it
LoopFromRoot ==
    \E q \in FromRoot :
        q \in Descendants({tree_processes[i].pid : i \in
                             {j \in DOMAIN tree_processes :
                                 tree_processes[j].parent_pid = Some(q)}},
                          MaxProcs)

\* each process reachable from the root is in the PIDs once, and no other is
ExactlyOnce(pids) ==
    \A q \in TreePids :
        Cardinality({i \in DOMAIN pids : pids[i] = q})
            = IF q \in FromRoot THEN 1 ELSE 0

\* C40 as stated: build_tree terminates for every process list and root PID,
\* also when a process is its own parent or the parent links form a cycle,
\* and the tree holds each process reachable from the root exactly once
TreeBuilt ==
    /\ tree_built # None => unwrap(tree_built) # None
    /\ tree_pids # None => ExactlyOnce(unwrap(tree_pids))

\* what the code does: build_tree returns a tree, with each process reachable
\* from the root exactly once, when no parent link reachable from the root
\* loops, and exhausts the stack when one does
TreeBuiltWithoutLoop ==
    /\ tree_built # None => (unwrap(tree_built) = None <=> LoopFromRoot)
    /\ tree_pids # None => ExactlyOnce(unwrap(tree_pids))

\* a tree of three processes has been built and read
TreeBuiltWitness ==
    /\ tree_pids # None
    /\ Len(unwrap(tree_pids)) = 3

=========================================================================
